---- MODULE Spec2Model ----
(***************************************************************************)
(* Gesture-capture pipelines of frame-camera: CameraView (V1, hold to      *)
(* capture), CameraViewV2 (twitch edge) and CameraViewV3 (contact).        *)
(*                                                                         *)
(* Fixed-point conventions of the model:                                   *)
(*   - normalized coordinates and lengths are integers in units of 1/1000  *)
(*     (0.08 is 80); Math.hypot is the integer square root;                *)
(*   - canvas pixel lengths are integers in tenths of a pixel;             *)
(*   - the V3 jitter average and contact threshold are integers in units   *)
(*     of 1/10000;                                                         *)
(*   - times are integer milliseconds of performance.now().                *)
(***************************************************************************)
EXTENDS Integers, Sequences, FiniteSets, TLC

VARIABLES
  policy,            \* App: which camera view is mounted (1, 2 or 3)
  clock,             \* performance.now()
  pc,                \* position of the tick callback: "raf", "detect", "capture"
  rafPending,        \* animation-frame callbacks requested and not yet run
  ticksRunning,      \* invocations of tick() that have started and not finished
  inFlight,          \* capture functions awaited and not yet settled
  capturingRef,
  cornersHistoryRef, \* V1, V2
  gestureValid,
  gestureStable,
  status,
  stableSinceRef,    \* V1
  twitchRef,         \* V2: [left, right] twitch detector states
  prevIndexYRef,     \* V2: [left, right] previous top-edge y
  twoHandsSinceRef,  \* V2
  contactSinceRef,   \* V3
  lastCaptureAtRef,  \* V3
  jitterEmaRef,      \* V3
  prevTipsRef,       \* V3: << >> or <<Li, Lt, Ri, Rt>> of the previous measured tick
  coarseInputRef,    \* V3
  steadyObs,         \* environment: the observation of a motionless user, or NoObs
  scene,             \* environment: "gesture" or "degenerate", which observations occur
  pointerCoarse,     \* environment: the device's primary pointer is coarse (a touch device)
  firstTickAt,       \* history: time of the first tick of a motionless user
  lastInitAt,        \* history: time the latest capture was initiated
  lastDoneAt,        \* history: time the latest capture's export completed
  dwellClean,        \* history (V1): every tick since the dwell timer started was valid and stable
  lastHands,         \* history: the hands the detector delivered on the latest tick
  twoSeenAt,         \* history (V2): first tick with two hands since the latest tick with fewer
  mode,              \* App: "camera" or "result"
  imageUrl,          \* App: NoUrl or the blob URL shown by CaptureResult
  views,             \* the camera view instances mounted so far, in mount order
  urls,              \* how many blob URLs URL.createObjectURL has created
  revoked,           \* the blob URLs passed to URL.revokeObjectURL
  caseIn,            \* input of a function under test, << >> when the pipeline runs
  caseStep,          \* how many steps of the function under test have been applied
  caseOut            \* result of the function under test

v1vars == <<stableSinceRef, dwellClean>>

v2vars == <<twitchRef, prevIndexYRef, twoHandsSinceRef, twoSeenAt>>

v3vars == <<contactSinceRef, lastCaptureAtRef, jitterEmaRef, prevTipsRef, coarseInputRef>>

casevars == <<caseIn, caseStep, caseOut>>

appvars == <<mode, imageUrl, views, urls, revoked>>

pipevars == <<policy, clock, pc, rafPending, ticksRunning, inFlight, capturingRef,
              cornersHistoryRef, gestureValid, gestureStable, status, v1vars, v2vars, v3vars,
              steadyObs, scene, pointerCoarse, firstTickAt, lastInitAt, lastDoneAt,
              lastHands, appvars>>

\* the state of the running loop of one camera view
loopvars == <<clock, pc, rafPending, ticksRunning, inFlight, capturingRef,
              cornersHistoryRef, gestureValid, gestureStable, status, v1vars, v2vars, v3vars,
              steadyObs, scene, pointerCoarse, firstTickAt, lastInitAt, lastDoneAt,
              lastHands>>

vars == <<pipevars, casevars>>

----------------------------------------------------------------------------
(* Bounds of the model *)

MaxTime == 1200

\* Number of top-edge samples fed to one twitch detector.
MaxSamples == 4

\* Top-edge y of a sample, relative to the baseline, and the time since the
\* previous sample in ms.
TwitchSamples == {-30, 0, 10, 30}

SampleGaps == {100, 150, 400}

\* Number of corner sets appended to one corner history.
MaxPushes == 5

\* Delay between a requestAnimationFrame call and its callback, in ms.
FrameSteps == {100, 200}

\* Time an awaited crop/export takes, in ms.
CaptureDurations == {100, 300}

----------------------------------------------------------------------------
(* Program constants *)

Null == -1

AUTO_CAPTURE_MS == 300

CONTACT_THRESH_V1 == 80

MIN_SIZE_V1 == 40

STABLE_PX_V1 == 6

HISTORY_CAP_V1 == 3

MIN_SIZE_V2 == 25

STABLE_PX_V2 == 8

HISTORY_CAP_V2 == 2

TWITCH_WINDOW_MS == 350

DOWN_AMP == 20

UP_AMP == 20

INST_DOWN_VEL == 10

SHUTTER_ARM_DELAY_MS == 600

\* CONTACT_SCALE = 0.18, in hundredths
CONTACT_SCALE_PCT == 18

CONTACT_MIN == 5

CONTACT_MAX == 50

CONTACT_HOLD_MS == 150

\* CONTACT_RELEASE_MULT = 1.4, in tenths
CONTACT_RELEASE_MULT_X10 == 14

MIN_TIME_BETWEEN_CAPTURES_MS == 400

\* CONTACT_MOBILE_BOOST = 3.5, in tenths
CONTACT_MOBILE_BOOST_X10 == 35

\* JITTER_EMA_ALPHA = 0.35, in hundredths
JITTER_EMA_ALPHA_PCT == 35

JITTER_GAIN == 2

MIN_SPAN_V3 == 50

\* canvas.width / canvas.height as set by drawOverlay from the video's client size
Canvas == [width |-> 1280, height |-> 720]

----------------------------------------------------------------------------
(* Geometry utilities *)

Abs(n) == IF n < 0 THEN -n ELSE n

Min2(a, b) == IF a <= b THEN a ELSE b

Max2(a, b) == IF a >= b THEN a ELSE b

RECURSIVE SqrtIter(_, _, _)
SqrtIter(n, lo, hi) ==
  IF lo >= hi THEN lo
  ELSE LET mid == (lo + hi + 1) \div 2
       IN  IF mid * mid <= n THEN SqrtIter(n, mid, hi) ELSE SqrtIter(n, lo, mid - 1)

\* floor(sqrt(n)) for 0 <= n < 2^31
ISqrt(n) == SqrtIter(n, 0, Min2(n, 46340))

Hypot(dx, dy) == ISqrt(dx * dx + dy * dy)

Pt(px, py) == [x |-> px, y |-> py]

distance(a, b) == Hypot(a.x - b.x, a.y - b.y)

Mid(a, b) == Pt((a.x + b.x) \div 2, (a.y + b.y) \div 2)

----------------------------------------------------------------------------
(* Detector output: a hand is its index fingertip (landmark 8) and thumb   *)
(* tip (landmark 4); tips = FALSE is a hand whose landmark list lacks them *)

Hand(ix, iy, tx, ty) == [tips |-> TRUE, i |-> Pt(ix, iy), t |-> Pt(tx, ty)]

BlankHand == [tips |-> FALSE, i |-> Pt(0, 0), t |-> Pt(0, 0)]

NoObs == << >>

\* a framing pose: index tips touching, thumb tips touching
PoseF0 == << Hand(300, 300, 480, 600), Hand(336, 300, 516, 600) >>

\* the same pose moved 60/1000 to the right
PoseF1 == << Hand(360, 300, 540, 600), Hand(396, 300, 576, 600) >>

\* two hands far apart
PoseApart == << Hand(120, 300, 120, 600), Hand(840, 300, 840, 600) >>

PoseOneHand == << Hand(300, 300, 480, 600) >>

PoseNoTips == << Hand(300, 300, 480, 600), BlankHand >>

\* two hands whose four fingertips all coincide
PoseCoincident == << Hand(300, 300, 300, 300), Hand(300, 300, 300, 300) >>

InputsV1 == {NoObs, PoseOneHand, PoseF0, PoseF1, PoseApart, PoseNoTips, PoseCoincident}

SteadyInputsV1 == {PoseF0, PoseF1}

----------------------------------------------------------------------------
(* Frame candidate builder and smoother *)

NoCorners == [topLeft |-> Pt(0, 0), topRight |-> Pt(0, 0),
              bottomRight |-> Pt(0, 0), bottomLeft |-> Pt(0, 0)]

Invalid == [valid |-> FALSE, hasCorners |-> FALSE, corners |-> NoCorners]

SortedLR_InputOrder(a, b) == <<a, b>>

\* candidates.sort((a, b) => a.i.x - b.i.x): the visual left hand first
SortedLR(a, b) == IF a.i.x - b.i.x <= 0 THEN <<a, b>> ELSE <<b, a>>

computeDirectorFrameV1_PreferCross(leftHandInput, rightHandInput) ==
  IF ~(leftHandInput.tips /\ rightHandInput.tips) THEN Invalid
  ELSE
    LET sorted == SortedLR(leftHandInput, rightHandInput)
        Li == sorted[1].i
        Lt == sorted[1].t
        Ri == sorted[2].i
        Rt == sorted[2].t
        sameOk == distance(Li, Ri) < CONTACT_THRESH_V1 /\ distance(Lt, Rt) < CONTACT_THRESH_V1
        crossOk == distance(Li, Rt) < CONTACT_THRESH_V1 /\ distance(Lt, Ri) < CONTACT_THRESH_V1
        c1 == IF ~crossOk THEN Mid(Li, Ri) ELSE Mid(Li, Rt)
        c2 == IF ~crossOk THEN Mid(Lt, Rt) ELSE Mid(Lt, Ri)
        leftX == Min2(c1.x, c2.x)
        rightX == Max2(c1.x, c2.x)
        topY == Min2(c1.y, c2.y)
        bottomY == Max2(c1.y, c2.y)
        validSize == (rightX - leftX) > MIN_SIZE_V1 /\ (bottomY - topY) > MIN_SIZE_V1
    IN  IF ~sameOk /\ ~crossOk THEN Invalid
        ELSE IF ~validSize THEN Invalid
        ELSE [valid |-> TRUE, hasCorners |-> TRUE,
              corners |-> [topLeft |-> Pt(leftX, topY), topRight |-> Pt(rightX, topY),
                           bottomRight |-> Pt(rightX, bottomY), bottomLeft |-> Pt(leftX, bottomY)]]

computeDirectorFrameV1(leftHandInput, rightHandInput) ==
  IF ~(leftHandInput.tips /\ rightHandInput.tips) THEN Invalid
  ELSE
    LET sorted == SortedLR(leftHandInput, rightHandInput)
        Li == sorted[1].i
        Lt == sorted[1].t
        Ri == sorted[2].i
        Rt == sorted[2].t
        sameOk == distance(Li, Ri) < CONTACT_THRESH_V1 /\ distance(Lt, Rt) < CONTACT_THRESH_V1
        crossOk == distance(Li, Rt) < CONTACT_THRESH_V1 /\ distance(Lt, Ri) < CONTACT_THRESH_V1
        c1 == IF sameOk THEN Mid(Li, Ri) ELSE Mid(Li, Rt)
        c2 == IF sameOk THEN Mid(Lt, Rt) ELSE Mid(Lt, Ri)
        leftX == Min2(c1.x, c2.x)
        rightX == Max2(c1.x, c2.x)
        topY == Min2(c1.y, c2.y)
        bottomY == Max2(c1.y, c2.y)
        validSize == (rightX - leftX) > MIN_SIZE_V1 /\ (bottomY - topY) > MIN_SIZE_V1
    IN  IF ~sameOk /\ ~crossOk THEN Invalid
        ELSE IF ~validSize THEN Invalid
        ELSE [valid |-> TRUE, hasCorners |-> TRUE,
              corners |-> [topLeft |-> Pt(leftX, topY), topRight |-> Pt(rightX, topY),
                           bottomRight |-> Pt(rightX, bottomY), bottomLeft |-> Pt(leftX, bottomY)]]

RECURSIVE SumOver(_, _, _)
\* history.reduce over one coordinate: corner c ("topLeft", ...), axis "x" or "y"
SumOver(history, c, axis) ==
  IF history = << >> THEN 0
  ELSE history[1][c][axis] + SumOver(Tail(history), c, axis)

AvgPt(history, c) ==
  Pt(SumOver(history, c, "x") \div Len(history), SumOver(history, c, "y") \div Len(history))

averageCorners(history) ==
  [topLeft |-> AvgPt(history, "topLeft"), topRight |-> AvgPt(history, "topRight"),
   bottomRight |-> AvgPt(history, "bottomRight"), bottomLeft |-> AvgPt(history, "bottomLeft")]

PushHistory_EvictNewest(hist, c, cap) ==
  IF Len(hist) >= cap THEN hist ELSE Append(hist, c)

\* hist.push(c); if (hist.length > cap) hist.shift()
PushHistory(hist, c, cap) ==
  LET h == Append(hist, c) IN IF Len(h) > cap THEN Tail(h) ELSE h

\* distance between a corner of prev and of cur on the canvas, in tenths of a pixel
PixelDistance(p, q) ==
  Hypot((Abs(p.x - q.x) * Canvas.width) \div 100, (Abs(p.y - q.y) * Canvas.height) \div 100)

\* delta: the four corner displacements summed, in tenths of a pixel
CornerDelta(prev, cur) ==
  PixelDistance(prev.topLeft, cur.topLeft) + PixelDistance(prev.topRight, cur.topRight)
  + PixelDistance(prev.bottomRight, cur.bottomRight) + PixelDistance(prev.bottomLeft, cur.bottomLeft)

localStableV1_TwoEntries(hist) ==
  /\ Len(hist) >= 2
  /\ CornerDelta(averageCorners(SubSeq(hist, 1, 2)), averageCorners(hist)) < 4 * STABLE_PX_V1 * 10

\* avgDelta = delta / 4; localStable = avgDelta < 6
localStableV1(hist) ==
  /\ Len(hist) >= HISTORY_CAP_V1
  /\ CornerDelta(averageCorners(SubSeq(hist, 1, 2)), averageCorners(hist)) < 4 * STABLE_PX_V1 * 10

\* lookup tables over the bounded inputs: the operators above, evaluated once
FrameOfV1 ==
  [h \in InputsV1 |-> IF Len(h) >= 2 THEN computeDirectorFrameV1(h[1], h[2]) ELSE Invalid]

CornerSetsV1 == {FrameOfV1[h].corners : h \in {g \in InputsV1 : FrameOfV1[g].hasCorners}}

HistoriesV1 == UNION {[1..n -> CornerSetsV1] : n \in 0..HISTORY_CAP_V1}

StableOfV1 == [h \in HistoriesV1 |-> localStableV1(h)]

----------------------------------------------------------------------------
(* V2 (twitch edge): builder, stability and twitch detector *)

\* both hands spread, the left index tip lowered by a, the right one by b
PoseV2(a, b) == << Hand(300, 300 + a, 300, 600), Hand(600, 300 + b, 600, 600) >>

\* index tips closer than the minimum width
PoseNarrow == << Hand(300, 300, 300, 600), Hand(312, 300, 312, 600) >>

InputsV2 == {NoObs, PoseOneHand, PoseNoTips, PoseNarrow, PoseCoincident,
             PoseV2(0, 0), PoseV2(60, 0), PoseV2(0, 60), PoseV2(60, 60)}

computeDirectorFrameV2_NoMinSize(leftHandInput, rightHandInput) ==
  IF ~(leftHandInput.tips /\ rightHandInput.tips) THEN Invalid
  ELSE
    LET sorted == SortedLR(leftHandInput, rightHandInput)
        Li == sorted[1].i
        Lt == sorted[1].t
        Ri == sorted[2].i
        Rt == sorted[2].t
        width == Abs(Ri.x - Li.x)
        topY == Min2(Li.y, Ri.y)
        bottomY == Max2(Lt.y, Rt.y)
        height == Max2(0, bottomY - topY)
    IN  [valid |-> TRUE, hasCorners |-> TRUE,
         corners |-> [topLeft |-> Li, topRight |-> Ri, bottomRight |-> Rt, bottomLeft |-> Lt]]

computeDirectorFrameV2_ThumbsOnTop(leftHandInput, rightHandInput) ==
  IF ~(leftHandInput.tips /\ rightHandInput.tips) THEN Invalid
  ELSE
    LET sorted == SortedLR(leftHandInput, rightHandInput)
        Li == sorted[1].i
        Lt == sorted[1].t
        Ri == sorted[2].i
        Rt == sorted[2].t
        width == Abs(Ri.x - Li.x)
        topY == Min2(Li.y, Ri.y)
        bottomY == Max2(Lt.y, Rt.y)
        height == Max2(0, bottomY - topY)
    IN  [valid |-> width > MIN_SIZE_V2 /\ height > MIN_SIZE_V2, hasCorners |-> TRUE,
         corners |-> [topLeft |-> Lt, topRight |-> Rt, bottomRight |-> Ri, bottomLeft |-> Li]]

computeDirectorFrameV2(leftHandInput, rightHandInput) ==
  IF ~(leftHandInput.tips /\ rightHandInput.tips) THEN Invalid
  ELSE
    LET sorted == SortedLR(leftHandInput, rightHandInput)
        Li == sorted[1].i
        Lt == sorted[1].t
        Ri == sorted[2].i
        Rt == sorted[2].t
        width == Abs(Ri.x - Li.x)
        topY == Min2(Li.y, Ri.y)
        bottomY == Max2(Lt.y, Rt.y)
        height == Max2(0, bottomY - topY)
    IN  [valid |-> width > MIN_SIZE_V2 /\ height > MIN_SIZE_V2, hasCorners |-> TRUE,
         corners |-> [topLeft |-> Li, topRight |-> Ri, bottomRight |-> Rt, bottomLeft |-> Lt]]

\* avgDelta = delta / 4; localStable = avgDelta < 8
localStableV2(hist) ==
  /\ Len(hist) >= HISTORY_CAP_V2
  /\ CornerDelta(averageCorners(SubSeq(hist, 1, 1)), averageCorners(hist)) < 4 * STABLE_PX_V2 * 10

FrameOfV2 ==
  [h \in InputsV2 |-> IF Len(h) >= 2 THEN computeDirectorFrameV2(h[1], h[2]) ELSE Invalid]

CornerSetsV2 == {FrameOfV2[h].corners : h \in {g \in InputsV2 : FrameOfV2[g].hasCorners}}

HistoriesV2 == UNION {[1..n -> CornerSetsV2] : n \in 1..HISTORY_CAP_V2}

StableOfV2 == [h \in HistoriesV2 |-> localStableV2(h)]

SmoothedOfV2 == [h \in HistoriesV2 |-> averageCorners(h)]

IdleTwitch == [phase |-> "idle", startY |-> 0, downY |-> 0, hasDown |-> FALSE, startTime |-> 0]

processSide_NoWindow(state, y, prevY, now) ==
  IF state.phase = "idle"
  THEN IF (y - prevY) >= INST_DOWN_VEL
       THEN [state |-> [phase |-> "down", startY |-> prevY, downY |-> y,
                        hasDown |-> (y - prevY) >= DOWN_AMP, startTime |-> now],
             click |-> FALSE]
       ELSE [state |-> state, click |-> FALSE]
  ELSE IF FALSE
       THEN [state |-> [state EXCEPT !.phase = "idle"], click |-> FALSE]
       ELSE LET downY == IF y > state.downY THEN y ELSE state.downY
                hasDown == state.hasDown \/ (downY - state.startY) >= DOWN_AMP
                upDisp == downY - y
            IN  IF hasDown /\ upDisp >= UP_AMP
                THEN [state |-> [state EXCEPT !.phase = "idle", !.downY = downY, !.hasDown = hasDown],
                      click |-> TRUE]
                ELSE [state |-> [state EXCEPT !.downY = downY, !.hasDown = hasDown],
                      click |-> FALSE]

processSide_NoDownAmp(state, y, prevY, now) ==
  IF state.phase = "idle"
  THEN IF (y - prevY) >= INST_DOWN_VEL
       THEN [state |-> [phase |-> "down", startY |-> prevY, downY |-> y,
                        hasDown |-> (y - prevY) >= DOWN_AMP, startTime |-> now],
             click |-> FALSE]
       ELSE [state |-> state, click |-> FALSE]
  ELSE IF now - state.startTime > TWITCH_WINDOW_MS
       THEN [state |-> [state EXCEPT !.phase = "idle"], click |-> FALSE]
       ELSE LET downY == IF y > state.downY THEN y ELSE state.downY
                hasDown == state.hasDown \/ (downY - state.startY) >= DOWN_AMP
                upDisp == downY - y
            IN  IF upDisp >= UP_AMP
                THEN [state |-> [state EXCEPT !.phase = "idle", !.downY = downY, !.hasDown = hasDown],
                      click |-> TRUE]
                ELSE [state |-> [state EXCEPT !.downY = downY, !.hasDown = hasDown],
                      click |-> FALSE]

\* processSide(side, y, prevY): the detector state after the call and its result
processSide(state, y, prevY, now) ==
  IF state.phase = "idle"
  THEN IF (y - prevY) >= INST_DOWN_VEL
       THEN [state |-> [phase |-> "down", startY |-> prevY, downY |-> y,
                        hasDown |-> (y - prevY) >= DOWN_AMP, startTime |-> now],
             click |-> FALSE]
       ELSE [state |-> state, click |-> FALSE]
  ELSE IF now - state.startTime > TWITCH_WINDOW_MS
       THEN [state |-> [state EXCEPT !.phase = "idle"], click |-> FALSE]
       ELSE LET downY == IF y > state.downY THEN y ELSE state.downY
                hasDown == state.hasDown \/ (downY - state.startY) >= DOWN_AMP
                upDisp == downY - y
            IN  IF hasDown /\ upDisp >= UP_AMP
                THEN [state |-> [state EXCEPT !.phase = "idle", !.downY = downY, !.hasDown = hasDown],
                      click |-> TRUE]
                ELSE [state |-> [state EXCEPT !.downY = downY, !.hasDown = hasDown],
                      click |-> FALSE]

----------------------------------------------------------------------------
(* V3 (contact): measurements, jitter and adaptive threshold *)

\* two small hands side by side, the right one gap/1000 to the right of the left one
PoseV3(gap) == << Hand(300, 300, 300, 500), Hand(300 + gap, 300, 300 + gap, 500) >>

PoseTouch == PoseV3(24)

PoseNear == PoseV3(40)

PoseOpen == PoseV3(64)

InputsV3 == {NoObs, PoseOneHand, PoseNoTips, PoseCoincident, PoseTouch, PoseNear, PoseOpen}

\* the observations without a usable pair of hands
DegenerateInputs == {NoObs, PoseOneHand, PoseNoTips, PoseCoincident}

\* the degenerate observations, and for each view one gesture that can precede them
DegenerateScene == DegenerateInputs \cup {PoseF0, PoseV2(0, 0), PoseV2(60, 0), PoseTouch}

SteadyInputsV3 == {PoseTouch}

clamp(v, lo, hi) == Max2(lo, Min2(hi, v))

\* validHands = hands.filter(both tips); the first two, ordered left/right by index x
MeasureV3(hands) ==
  LET validHands == SelectSeq(hands, LAMBDA h : h.tips)
  IN  IF Len(validHands) < 2
      THEN [ok |-> FALSE, tips |-> << >>, spanL |-> 0, spanR |-> 0, dIndex_same |-> 0,
            dThumb_same |-> 0, dIndex_cross |-> 0, dThumb_cross |-> 0]
      ELSE LET sorted == SortedLR(validHands[1], validHands[2])
               Li == sorted[1].i
               Lt == sorted[1].t
               Ri == sorted[2].i
               Rt == sorted[2].t
           IN  [ok |-> TRUE, tips |-> <<Li, Lt, Ri, Rt>>,
                spanL |-> distance(Li, Lt), spanR |-> distance(Ri, Rt),
                dIndex_same |-> distance(Li, Ri), dThumb_same |-> distance(Lt, Rt),
                dIndex_cross |-> distance(Li, Rt), dThumb_cross |-> distance(Lt, Ri)]

\* frameJitter = n ? sum / n : 0 over the tips present in prevTipsRef
frameJitter(prev, cur) ==
  IF prev = << >> THEN 0
  ELSE (distance(cur[1], prev[1]) + distance(cur[2], prev[2])
        + distance(cur[3], prev[3]) + distance(cur[4], prev[4])) \div 4

\* The jitter average and the thresholds derived from it are kept in
\* Fine-ths of the coordinate unit (1/10000), so that the decay of the
\* average is not rounded away.
Fine == 10

\* jitterEmaRef.current + (frameJitter - jitterEmaRef.current) * JITTER_EMA_ALPHA
jitterEma(ema, fj) == ema + ((fj * Fine - ema) * JITTER_EMA_ALPHA_PCT) \div 100

\* clamp(avgSpan * CONTACT_SCALE * deviceBoost + jitterEma * JITTER_GAIN, CONTACT_MIN, CONTACT_MAX)
contactThresh_NoUpperClamp(spanL, spanR, ema, coarse) ==
  LET deviceBoostX10 == IF coarse THEN CONTACT_MOBILE_BOOST_X10 ELSE 10
      base == ((spanL + spanR) * CONTACT_SCALE_PCT * deviceBoostX10) \div 2000
  IN  Max2(CONTACT_MIN * Fine, base * Fine + ema * JITTER_GAIN)

contactThresh(spanL, spanR, ema, coarse) ==
  LET deviceBoostX10 == IF coarse THEN CONTACT_MOBILE_BOOST_X10 ELSE 10
      base == ((spanL + spanR) * CONTACT_SCALE_PCT * deviceBoostX10) \div 2000
  IN  clamp(base * Fine + ema * JITTER_GAIN, CONTACT_MIN * Fine, CONTACT_MAX * Fine)

touchingNow_AnyPair(m, thresh, coarse) ==
  LET handsValid == m.spanL > MIN_SPAN_V3 /\ m.spanR > MIN_SPAN_V3
      indexClose == m.dIndex_same * Fine < thresh
      thumbClose == m.dThumb_same * Fine < thresh
      sameOk == indexClose /\ thumbClose
      crossOk == m.dIndex_cross * Fine < thresh /\ m.dThumb_cross * Fine < thresh
      singleOkMobile == coarse /\ (indexClose \/ thumbClose \/ m.dIndex_cross * Fine < thresh
                                     \/ m.dThumb_cross * Fine < thresh)
  IN  handsValid /\ (sameOk \/ crossOk \/ singleOkMobile)

touchingNow_NoHandsValid(m, thresh, coarse) ==
  LET indexClose == m.dIndex_same * Fine < thresh
      thumbClose == m.dThumb_same * Fine < thresh
      sameOk == indexClose /\ thumbClose
      crossOk == m.dIndex_cross * Fine < thresh /\ m.dThumb_cross * Fine < thresh
      singleOkMobile == coarse /\ (indexClose \/ thumbClose)
  IN  sameOk \/ crossOk \/ singleOkMobile

\* handsValid && (sameOk || crossOk || singleOkMobile)
touchingNow(m, thresh, coarse) ==
  LET handsValid == m.spanL > MIN_SPAN_V3 /\ m.spanR > MIN_SPAN_V3
      indexClose == m.dIndex_same * Fine < thresh
      thumbClose == m.dThumb_same * Fine < thresh
      sameOk == indexClose /\ thumbClose
      crossOk == m.dIndex_cross * Fine < thresh /\ m.dThumb_cross * Fine < thresh
      singleOkMobile == coarse /\ (indexClose \/ thumbClose)
  IN  handsValid /\ (sameOk \/ crossOk \/ singleOkMobile)

\* releaseThresh = contactThresh * CONTACT_RELEASE_MULT, in tenths of the threshold's unit
releaseThreshX10(thresh) == thresh * CONTACT_RELEASE_MULT_X10

\* any of the four distances > releaseThresh = contactThresh * CONTACT_RELEASE_MULT
apartEnough(m, thresh) ==
  LET over(d) == 10 * d * Fine > releaseThreshX10(thresh)
  IN  over(m.dIndex_same) \/ over(m.dThumb_same) \/ over(m.dIndex_cross) \/ over(m.dThumb_cross)

MeasureOfV3 == [h \in InputsV3 |-> MeasureV3(h)]

TipSetsV3 == {MeasureOfV3[h].tips : h \in InputsV3}

JitterOfV3 == [p \in TipSetsV3, q \in TipSetsV3 |-> IF q = << >> THEN 0 ELSE frameJitter(p, q)]

----------------------------------------------------------------------------
(* The animation-frame loop *)

RafAtTickStart_Rescheduling(r) == r

\* the frame request is consumed when its callback runs; tick() requests the
\* next frame only in its finally block
RafAtTickStart(r) == r - 1

\* finally { rafRef.current = requestAnimationFrame(tick) }
RafAtTickEnd(r) == r + 1

\* imageUrl: null
NoUrl == 0

\* a camera view instance at its mount: the refs of the component, the fields
\* of its HandTracker, how far startStream has come, and what has been
\* observed of it (closed, calls, outcome, lateTick, lateCapture)
NewView(v) ==
  [ver |-> v, mounted |-> TRUE, videoRef |-> TRUE, phase |-> "starting",
   trackerRef |-> FALSE, detector |-> FALSE, ready |-> FALSE,
   raf |-> FALSE, pc |-> "idle", capturingRef |-> FALSE,
   closed |-> FALSE, calls |-> 0, outcome |-> "none",
   lateTick |-> FALSE, lateCapture |-> FALSE]

\* the same instance once startStream has called loop()
RunningView(v) ==
  [NewView(v) EXCEPT !.phase = "running", !.trackerRef = TRUE, !.detector = TRUE,
                     !.ready = TRUE, !.raf = TRUE]

InitPipeline ==
  /\ clock = 0
  /\ pc = "raf"
  /\ rafPending = 1
  /\ ticksRunning = 0
  /\ inFlight = 0
  /\ capturingRef = FALSE
  /\ cornersHistoryRef = << >>
  /\ gestureValid = FALSE
  /\ gestureStable = FALSE
  /\ status = "Initializing camera..."
  /\ stableSinceRef = Null
  /\ twitchRef = [left |-> IdleTwitch, right |-> IdleTwitch]
  /\ prevIndexYRef = [left |-> 0, right |-> 0]
  /\ twoHandsSinceRef = Null
  /\ contactSinceRef = Null
  /\ lastCaptureAtRef = 0
  /\ jitterEmaRef = 0
  /\ prevTipsRef = << >>
  /\ coarseInputRef = FALSE
  /\ firstTickAt = Null
  /\ lastInitAt = Null
  /\ lastDoneAt = Null
  /\ dwellClean = FALSE
  /\ lastHands = << >>
  /\ twoSeenAt = Null
  /\ mode = "camera"
  /\ imageUrl = NoUrl
  /\ views = <<RunningView(policy)>>
  /\ urls = 0
  /\ revoked = {}

\* no function is under test while the pipeline runs
NoCase ==
  /\ caseIn = << >>
  /\ caseStep = 0
  /\ caseOut = << >>

Init ==
  /\ policy \in {1, 2, 3}
  /\ steadyObs = NoObs
  /\ scene = "gesture"
  /\ pointerCoarse = FALSE
  /\ InitPipeline
  /\ NoCase

\* The browser runs the requested animation-frame callback: tick() starts and
\* awaits tracker.detectHands(video).
TickStart ==
  /\ rafPending > 0
  /\ \E d \in FrameSteps :
       /\ clock + d <= MaxTime
       /\ clock' = clock + d
  /\ rafPending' = RafAtTickStart(rafPending)
  /\ ticksRunning' = ticksRunning + 1
  /\ pc' = "detect"
  /\ UNCHANGED <<appvars, casevars, scene, pointerCoarse, lastHands, policy, inFlight, capturingRef, cornersHistoryRef, gestureValid,
                 gestureStable, status, v1vars, v2vars, v3vars, steadyObs, firstTickAt,
                 lastInitAt, lastDoneAt>>

\* what the detector may return on this tick
Delivered(inputs) ==
  IF steadyObs # NoObs THEN {steadyObs}
  ELSE IF scene = "degenerate" THEN inputs \cap DegenerateScene
  ELSE inputs \ {PoseCoincident}

\* the end of a tick that does not capture: the finally block
TickEnds ==
  /\ pc' = "raf"
  /\ rafPending' = RafAtTickEnd(rafPending)
  /\ ticksRunning' = ticksRunning - 1
  /\ UNCHANGED <<inFlight, capturingRef, lastInitAt, lastDoneAt>>

\* capturingRef.current = true; triggerFlashAndHaptic(); await capture(...)
CaptureBegins ==
  /\ pc' = "capture"
  /\ capturingRef' = TRUE
  /\ inFlight' = inFlight + 1
  /\ lastInitAt' = clock
  /\ UNCHANGED <<rafPending, ticksRunning, lastDoneAt>>

NoteFirstTick ==
  firstTickAt' = IF steadyObs # NoObs /\ firstTickAt = Null THEN clock ELSE firstTickAt

Falsy(t) == t = Null \/ t = 0

ShouldCaptureV1_NoFlag(capturing, localStable, stableSince, now) ==
  /\ localStable
  /\ ~Falsy(stableSince)
  /\ now - stableSince >= AUTO_CAPTURE_MS

ShouldCaptureV1_NoDwell(capturing, localStable, stableSince, now) ==
  /\ ~capturing
  /\ localStable
  /\ ~Falsy(stableSince)

\* if (!capturingRef.current && localStable && stableSinceRef.current
\*     && now - stableSinceRef.current >= AUTO_CAPTURE_MS)
ShouldCaptureV1(capturing, localStable, stableSince, now) ==
  /\ ~capturing
  /\ localStable
  /\ ~Falsy(stableSince)
  /\ now - stableSince >= AUTO_CAPTURE_MS

\* CameraView (V1): the body of tick() after detectHands resolved with hands
TickV1 ==
  /\ policy = 1
  /\ pc = "detect"
  /\ \E hands \in Delivered(InputsV1) :
       /\ lastHands' = hands
       /\ LET now == clock
              res == FrameOfV1[hands]
              hist == IF res.hasCorners
                      THEN PushHistory(cornersHistoryRef, res.corners, HISTORY_CAP_V1)
                      ELSE cornersHistoryRef
              localStable == res.hasCorners /\ StableOfV1[hist]
              since == IF ~(res.hasCorners /\ res.valid) THEN stableSinceRef
                       ELSE IF ~localStable THEN Null
                       ELSE IF Falsy(stableSinceRef) THEN now
                       ELSE stableSinceRef
              capture == res.hasCorners /\ res.valid
                         /\ ShouldCaptureV1(capturingRef, localStable, since, now)
          IN  /\ cornersHistoryRef' = hist
              /\ gestureStable' = IF res.hasCorners THEN localStable ELSE gestureStable
              /\ stableSinceRef' = since
              /\ dwellClean' = IF res.valid /\ localStable
                               THEN (IF Falsy(stableSinceRef) THEN TRUE ELSE dwellClean)
                               ELSE FALSE
              /\ IF capture
                 THEN /\ CaptureBegins
                      /\ UNCHANGED <<gestureValid, status>>
                 ELSE /\ TickEnds
                      /\ gestureValid' = res.valid
                      /\ status' = IF Len(hands) = 0 THEN "Hands up!"
                                   ELSE IF Len(hands) = 1 THEN "Other hand up as well"
                                   ELSE IF res.hasCorners THEN "Hold steady"
                                   ELSE "Contact your fingertips to Frame and Capture"
  /\ NoteFirstTick
  /\ UNCHANGED <<appvars, casevars, scene, pointerCoarse, policy, clock, steadyObs, v2vars, v3vars>>

\* if (!capturingRef.current && (leftClick || rightClick))
Armed_FromFirstTick(now, since) == since # Null

\* armed = twoHandsSinceRef.current != null
\*         && (now - twoHandsSinceRef.current) >= SHUTTER_ARM_DELAY_MS
Armed(now, since) == since # Null /\ (now - since) >= SHUTTER_ARM_DELAY_MS

ShouldCaptureV2(capturing, leftClick, rightClick) ==
  ~capturing /\ (leftClick \/ rightClick)

\* CameraViewV2: the body of tick() after detectHands resolved with hands
TickV2 ==
  /\ policy = 2
  /\ pc = "detect"
  /\ \E hands \in Delivered(InputsV2) :
       /\ lastHands' = hands
       /\ twoSeenAt' = IF Len(hands) < 2 THEN Null
                       ELSE IF twoSeenAt = Null THEN clock
                       ELSE twoSeenAt
       /\ LET now == clock
              res == FrameOfV2[hands]
              hist == IF res.hasCorners
                      THEN PushHistory(cornersHistoryRef, res.corners, HISTORY_CAP_V2)
                      ELSE cornersHistoryRef
              leftY == SmoothedOfV2[hist].topLeft.y
              rightY == SmoothedOfV2[hist].topRight.y
              first == twoHandsSinceRef = Null
              since == IF first THEN now ELSE twoHandsSinceRef
              prevY == IF first THEN [left |-> leftY, right |-> rightY] ELSE prevIndexYRef
              twitch == IF first THEN [left |-> IdleTwitch, right |-> IdleTwitch] ELSE twitchRef
              armed == Armed(now, since)
              detect == armed /\ res.valid
              l == IF detect THEN processSide(twitch.left, leftY, prevY.left, now)
                   ELSE [state |-> twitch.left, click |-> FALSE]
              r == IF detect THEN processSide(twitch.right, rightY, prevY.right, now)
                   ELSE [state |-> twitch.right, click |-> FALSE]
              capture == armed /\ ShouldCaptureV2(capturingRef, l.click, r.click)
          IN  IF ~res.hasCorners
              THEN /\ twoHandsSinceRef' = IF Len(hands) < 2 THEN Null ELSE twoHandsSinceRef
                   /\ twitchRef' = IF Len(hands) = 0
                                   THEN [left |-> IdleTwitch, right |-> IdleTwitch]
                                   ELSE twitchRef
                   /\ TickEnds
                   /\ gestureValid' = FALSE
                   /\ status' = IF Len(hands) = 0 THEN "Hands up like you're holding a camera"
                                ELSE IF Len(hands) = 1 THEN "Other hand up as well"
                                ELSE "Align index fingertips (top) and thumbs (bottom)"
                   /\ UNCHANGED <<cornersHistoryRef, gestureStable, prevIndexYRef>>
              ELSE /\ cornersHistoryRef' = hist
                   /\ gestureStable' = StableOfV2[hist]
                   /\ twoHandsSinceRef' = since
                   /\ prevIndexYRef' = [left |-> leftY, right |-> rightY]
                   /\ twitchRef' = [left |-> l.state, right |-> r.state]
                   /\ IF capture
                      THEN /\ CaptureBegins
                           /\ UNCHANGED <<gestureValid, status>>
                      ELSE /\ TickEnds
                           /\ gestureValid' = res.valid
                           /\ status' = IF ~armed THEN "Ready..."
                                        ELSE IF res.valid THEN "Now click"
                                        ELSE "Widen your frame"
  /\ NoteFirstTick
  /\ UNCHANGED <<appvars, casevars, scene, pointerCoarse, policy, clock, steadyObs, v1vars, v3vars>>

ShouldCaptureV3_NoCooldown(capturing, now, lastCaptureAt) == ~capturing

\* if (!capturingRef.current && now - lastCaptureAtRef.current > MIN_TIME_BETWEEN_CAPTURES_MS)
ShouldCaptureV3(capturing, now, lastCaptureAt) ==
  ~capturing /\ now - lastCaptureAt > MIN_TIME_BETWEEN_CAPTURES_MS

holdMs_NoHold(coarse) == 0

\* coarseInputRef.current ? (CONTACT_HOLD_MS + 20) : CONTACT_HOLD_MS
holdMs(coarse) == IF coarse THEN CONTACT_HOLD_MS + 20 ELSE CONTACT_HOLD_MS

\* CameraViewV3: the body of tick() after detectHands resolved with hands
TickV3 ==
  /\ policy = 3
  /\ pc = "detect"
  /\ \E hands \in Delivered(InputsV3) :
       /\ lastHands' = hands
       /\ LET now == clock
              detectedCount == Len(hands)
              m == MeasureOfV3[hands]
              measured == detectedCount >= 2 /\ m.ok
              ema == IF measured
                     THEN jitterEma(jitterEmaRef, JitterOfV3[prevTipsRef, m.tips])
                     ELSE jitterEmaRef
              thresh == contactThresh(m.spanL, m.spanR, ema, coarseInputRef)
              touching == measured /\ touchingNow(m, thresh, coarseInputRef)
              since == IF detectedCount < 2 THEN Null
                       ELSE IF ~measured THEN contactSinceRef
                       ELSE IF ~touching
                            THEN (IF apartEnough(m, thresh) THEN Null ELSE contactSinceRef)
                       ELSE IF contactSinceRef = Null THEN now
                       ELSE contactSinceRef
              heldLongEnough == touching /\ now - since >= holdMs(coarseInputRef)
              capture == heldLongEnough /\ ShouldCaptureV3(capturingRef, now, lastCaptureAtRef)
          IN  /\ jitterEmaRef' = ema
              /\ prevTipsRef' = IF measured THEN m.tips ELSE prevTipsRef
              /\ contactSinceRef' = since
              /\ IF capture
                 THEN /\ CaptureBegins
                      /\ lastCaptureAtRef' = now
                      /\ UNCHANGED status
                 ELSE /\ TickEnds
                      /\ UNCHANGED lastCaptureAtRef
                      /\ status' = IF detectedCount = 0 THEN "Hands up!"
                                   ELSE IF detectedCount = 1 THEN "Other hand up as well"
                                   ELSE "Touch tips to capture"
  /\ NoteFirstTick
  /\ UNCHANGED <<appvars, casevars, scene, pointerCoarse, policy, clock, steadyObs, cornersHistoryRef, gestureValid, gestureStable,
                 coarseInputRef, v1vars, v2vars>>

\* the awaited capture function resolves (toBlob called back): the statements
\* after the await run, then the rest of tick() and its finally block
CaptureResolves ==
  /\ pc = "capture"
  /\ \E d \in CaptureDurations : clock' = Min2(clock + d, MaxTime)
  /\ inFlight' = inFlight - 1
  /\ capturingRef' = FALSE
  /\ lastDoneAt' = clock'
  /\ stableSinceRef' = IF policy = 1 THEN Null ELSE stableSinceRef
  /\ contactSinceRef' = IF policy = 3 THEN Null ELSE contactSinceRef
  /\ gestureValid' = IF policy = 3 THEN gestureValid ELSE TRUE
  /\ status' = IF policy = 1 THEN "Hold steady"
               ELSE IF policy = 2 THEN "Now click"
               ELSE "Touch tips to capture"
  /\ pc' = "raf"
  /\ rafPending' = RafAtTickEnd(rafPending)
  /\ ticksRunning' = ticksRunning - 1
  /\ UNCHANGED <<appvars, casevars, scene, pointerCoarse, lastHands, policy, cornersHistoryRef, gestureStable, steadyObs, firstTickAt,
                 lastInitAt, dwellClean, v2vars, lastCaptureAtRef, jitterEmaRef,
                 prevTipsRef, coarseInputRef>>

\* the awaited capture function throws or rejects: tick()'s catch swallows the
\* exception, the statements after the await are skipped, finally runs
CaptureThrows ==
  /\ pc = "capture"
  /\ inFlight' = inFlight - 1
  /\ pc' = "raf"
  /\ rafPending' = RafAtTickEnd(rafPending)
  /\ ticksRunning' = ticksRunning - 1
  /\ UNCHANGED <<appvars, casevars, scene, pointerCoarse, lastHands, policy, clock, capturingRef, cornersHistoryRef, gestureValid,
                 gestureStable, status, v1vars, v2vars, v3vars, steadyObs, firstTickAt,
                 lastInitAt, lastDoneAt>>

Next == TickStart \/ TickV1 \/ TickV2 \/ TickV3 \/ CaptureResolves \/ CaptureThrows

Spec == Init /\ [][Next]_vars

\* The pipelines fed degenerate observations, any number of them after a gesture.
InitDegenerate ==
  /\ policy \in {1, 2, 3}
  /\ steadyObs = NoObs
  /\ scene = "degenerate"
  /\ pointerCoarse = FALSE
  /\ InitPipeline
  /\ NoCase

SpecDegenerate == InitDegenerate /\ [][Next]_vars

\* CameraViewV3 mounted on a touch device
InitTouch ==
  /\ policy = 3
  /\ steadyObs = NoObs
  /\ scene = "gesture"
  /\ pointerCoarse = TRUE
  /\ InitPipeline
  /\ NoCase

NextV3 == TickStart \/ TickV3 \/ CaptureResolves \/ CaptureThrows

SpecTouch == InitTouch /\ [][NextV3]_vars

----------------------------------------------------------------------------
(* A motionless user: the detector delivers the same observation on every  *)
(* tick. requestAnimationFrame runs every requested callback and the       *)
(* detector's promise settles, hence the weak fairness of the tick steps.  *)

InitSteady ==
  /\ policy \in {1, 3}
  /\ steadyObs \in (IF policy = 1 THEN SteadyInputsV1 ELSE SteadyInputsV3)
  /\ scene = "gesture"
  /\ pointerCoarse = FALSE
  /\ InitPipeline
  /\ NoCase

NextSteady == TickStart \/ TickV1 \/ TickV3 \/ CaptureResolves \/ CaptureThrows

SpecSteady ==
  /\ InitSteady
  /\ [][NextSteady]_vars
  /\ WF_vars(TickStart)
  /\ WF_vars(TickV1)
  /\ WF_vars(TickV3)

----------------------------------------------------------------------------
(* Claims *)

\* a capture is initiated by this step
Initiates == inFlight' > inFlight

\* C1: under every policy at most one capture is in flight: a capture is
\* initiated only while capturingRef is false and no earlier capture's
\* crop/export is still awaited.
C1_SingleFlight ==
  /\ [](inFlight <= 1)
  /\ [][Initiates => (~capturingRef /\ inFlight = 0)]_vars

\* a second capture is in flight after an earlier one completed
C1_Witness == inFlight = 1 /\ capturingRef /\ lastDoneAt # Null

\* C2: with a motionless user in the qualifying state on every tick, no
\* further capture is initiated once a capture has completed.
C2_NoAutoRepeat == [][Initiates => lastDoneAt = Null]_vars

\* C3: after a capture's crop/export has failed, the capturing flag is clear
\* again: whenever no capture is in flight, capturingRef is false.
C3_FlagClearedAfterFailure == (inFlight = 0) => ~capturingRef

\* C4: under every policy two capture initiations are at least 300 ms apart.
C4_MinInterval ==
  [][(Initiates /\ lastInitAt # Null) => clock - lastInitAt >= 300]_vars

\* C5 as stated: under V3 a capture is initiated only if more than
\* MIN_TIME_BETWEEN_CAPTURES_MS has elapsed since the previous capture's
\* crop/export completed.
C5_CooldownFromCompletion ==
  [][(policy = 3 /\ Initiates /\ lastDoneAt # Null)
       => clock - lastDoneAt > MIN_TIME_BETWEEN_CAPTURES_MS]_vars

\* C5 amended: under V3 a capture is initiated only if more than
\* MIN_TIME_BETWEEN_CAPTURES_MS has elapsed since the previous capture was
\* initiated.
C5_CooldownFromInitiation ==
  [][(policy = 3 /\ Initiates /\ lastInitAt # Null)
       => clock - lastInitAt > MIN_TIME_BETWEEN_CAPTURES_MS]_vars

\* a V3 capture in flight that began within the cooldown of the previous
\* capture's completion
C5_Witness ==
  /\ policy = 3
  /\ inFlight = 1
  /\ lastDoneAt # Null
  /\ clock - lastDoneAt <= MIN_TIME_BETWEEN_CAPTURES_MS

\* C6: while a capture's crop/export is in flight the per-tick detection
\* keeps running: the next tick is requested.
C6_TicksContinueDuringCapture == (inFlight > 0) => (rafPending > 0)

\* C7: at most one tick executes at a time, and the next tick is requested
\* only when the previous one has finished.
C7_OneTickAtATime ==
  /\ ticksRunning <= 1
  /\ rafPending + ticksRunning <= 1

\* a tick is suspended at its awaited crop/export and no other tick is requested
C7_Witness == pc = "capture" /\ ticksRunning = 1 /\ rafPending = 0

\* C8: under V1 a capture is initiated only if every tick since the dwell
\* timer started was valid and stable.
C8_DwellUnbroken == (policy = 1 /\ inFlight > 0) => dwellClean

\* the instability metric of the V1 history: delta of the older sub-window
\* against the whole window
MetricV1 ==
  CornerDelta(averageCorners(SubSeq(cornersHistoryRef, 1, 2)), averageCorners(cornersHistoryRef))

C10_CaptureAfter100ms ==
  (policy = 1 /\ pc = "raf" /\ ~capturingRef /\ gestureValid /\ gestureStable
     /\ stableSinceRef # Null)
    => clock - stableSinceRef < 100

\* some V2 twitch detector leaves Idle in this step
LeavesIdle ==
  \/ twitchRef.left.phase = "idle" /\ twitchRef'.left.phase = "down"
  \/ twitchRef.right.phase = "idle" /\ twitchRef'.right.phase = "down"

\* C11: under V2 a twitch detector leaves Idle, and a capture is initiated,
\* only on a tick at least SHUTTER_ARM_DELAY_MS after two hands were first
\* seen since the latest tick with fewer than two hands.
C11_ArmingDelay ==
  [][(policy = 2 /\ (LeavesIdle \/ Initiates))
       => (twoSeenAt' # Null /\ clock' - twoSeenAt' >= SHUTTER_ARM_DELAY_MS)]_vars

\* a V2 capture in flight after the hands were lost and the arming delay ran again
C11_Witness ==
  /\ policy = 2
  /\ inFlight = 1
  /\ twoSeenAt # Null
  /\ twoSeenAt >= 300

----------------------------------------------------------------------------
(* One side's twitch detector fed a sequence of top-edge samples, as the   *)
(* armed branch of CameraViewV2's tick does on valid frames: processSide,  *)
(* then prevIndexYRef takes the sample.                                    *)

InitTwitch ==
  /\ policy = 2
  /\ steadyObs = NoObs
  /\ scene = "gesture"
  /\ pointerCoarse = FALSE
  /\ InitPipeline
  /\ caseIn = << >>
  /\ caseStep = 0
  /\ caseOut = [state |-> IdleTwitch, prevY |-> 0, now |-> 0, click |-> FALSE, clicks |-> 0]

TwitchSample ==
  /\ caseStep < MaxSamples
  /\ \E y \in TwitchSamples, g \in SampleGaps :
       LET now == caseOut.now + g
           r == processSide(caseOut.state, y, caseOut.prevY, now)
       IN  /\ caseIn' = Append(caseIn, [y |-> y, at |-> now])
           /\ caseOut' = [state |-> r.state, prevY |-> y, now |-> now, click |-> r.click,
                          clicks |-> caseOut.clicks + (IF r.click THEN 1 ELSE 0)]
  /\ caseStep' = caseStep + 1
  /\ UNCHANGED pipevars

SpecTwitch == InitTwitch /\ [][TwitchSample]_vars

\* the samples fed so far are the displacement sequence [0, +0.03, +0.01, -0.03]
IsTwitchSequence ==
  /\ Len(caseIn) = 4
  /\ [i \in 1..4 |-> caseIn[i].y] = <<0, 30, 10, -30>>

\* C12 as stated: the sequence [0, +0.03, +0.01, -0.03] fires exactly one edge
\* when delivered within TWITCH_WINDOW_MS and none when spread over more.
C12_WindowOverWholeSequence ==
  IsTwitchSequence =>
    IF caseIn[4].at - caseIn[1].at <= TWITCH_WINDOW_MS
    THEN caseOut.clicks = 1
    ELSE caseOut.clicks = 0

\* C12 amended: the sequence fires exactly one edge when delivered within
\* TWITCH_WINDOW_MS, and none when the +0.01 sample comes more than
\* TWITCH_WINDOW_MS after the +0.03 sample.
C12_WindowFromDown ==
  IsTwitchSequence =>
    /\ (caseIn[4].at - caseIn[1].at <= TWITCH_WINDOW_MS => caseOut.clicks = 1)
    /\ (caseIn[3].at - caseIn[2].at > TWITCH_WINDOW_MS => caseOut.clicks = 0)

\* the sequence with the rise after the window: no edge
C12_Witness ==
  /\ IsTwitchSequence
  /\ caseIn[3].at - caseIn[2].at > TWITCH_WINDOW_MS
  /\ caseOut.clicks = 0

\* C20: a twitch detector fires only from Down, only with the downward
\* displacement since entering Down at least DOWN_AMP, the rise from the
\* recorded lowest point at least UP_AMP and at most TWITCH_WINDOW_MS since
\* entering Down; firing and timeout both return it to Idle; it enters Down
\* from Idle only on a per-tick downward movement of at least INST_DOWN_VEL.
C20_TwitchEdge ==
  [][LET before == caseOut.state
         after == caseOut'.state
         y == caseOut'.prevY
         now == caseOut'.now
         lowest == Max2(before.downY, y)
     IN  /\ caseOut'.click =>
               /\ before.phase = "down"
               /\ lowest - before.startY >= DOWN_AMP
               /\ lowest - y >= UP_AMP
               /\ now - before.startTime <= TWITCH_WINDOW_MS
               /\ after.phase = "idle"
         /\ (before.phase = "down" /\ now - before.startTime > TWITCH_WINDOW_MS) =>
               (after.phase = "idle" /\ ~caseOut'.click)
         /\ (before.phase = "idle" /\ after.phase = "down") =>
               y - caseOut.prevY >= INST_DOWN_VEL
    ]_vars

\* a detector that has just fired, after a dip it entered below DOWN_AMP
C20_Witness ==
  /\ caseOut.click
  /\ \E i \in 2..Len(caseIn) : caseIn[i].y - caseIn[i - 1].y = 10

\* both same-side fingertip pairs are within the release threshold 1.4 T and
\* at least one of them is no longer below the contact threshold T
InReleaseBand(m, thresh) ==
  /\ m.ok
  /\ m.spanL > MIN_SPAN_V3 /\ m.spanR > MIN_SPAN_V3
  /\ (m.dIndex_same * Fine >= thresh \/ m.dThumb_same * Fine >= thresh)
  /\ 10 * m.dIndex_same * Fine <= thresh * CONTACT_RELEASE_MULT_X10
  /\ 10 * m.dThumb_same * Fine <= thresh * CONTACT_RELEASE_MULT_X10

\* C13: under V3, once the contact timer runs, a tick on which the fingertip
\* pair distances lie between the contact threshold T and 1.4 T leaves the
\* contact timer as it is.
C13_HysteresisHolds ==
  [][(/\ policy = 3
      /\ pc = "detect" /\ pc' = "raf"
      /\ contactSinceRef # Null
      /\ Len(lastHands') >= 2
      /\ InReleaseBand(MeasureOfV3[lastHands'],
                       contactThresh(MeasureOfV3[lastHands'].spanL, MeasureOfV3[lastHands'].spanR,
                                     jitterEmaRef', coarseInputRef)))
       => contactSinceRef' = contactSinceRef]_vars

\* the fingertips touch on the latest tick: two valid hands and a qualifying
\* pair below the contact threshold of that tick
TouchingOnTick(hands, ema, coarse) ==
  /\ Len(hands) >= 2
  /\ MeasureOfV3[hands].ok
  /\ touchingNow(MeasureOfV3[hands],
                 contactThresh(MeasureOfV3[hands].spanL, MeasureOfV3[hands].spanR, ema, coarse),
                 coarse)

\* C14: under V3 a capture is initiated only on a tick where the fingertips
\* touch and the contact timer started at least CONTACT_HOLD_MS earlier.
C14_HoldBeforeCapture ==
  [][(policy = 3 /\ Initiates)
       => /\ TouchingOnTick(lastHands', jitterEmaRef', coarseInputRef)
          /\ contactSinceRef' # Null
          /\ clock' - contactSinceRef' >= CONTACT_HOLD_MS]_vars

\* a V3 capture in flight, begun on a touching tick after the hold time
C14_Witness ==
  /\ policy = 3
  /\ inFlight = 1
  /\ TouchingOnTick(lastHands, jitterEmaRef, coarseInputRef)
  /\ contactSinceRef # Null
  /\ clock - contactSinceRef >= CONTACT_HOLD_MS

----------------------------------------------------------------------------
(* The frame builders applied to a pair of hands in both argument orders.  *)

\* upright hands forming a frame, a hand with index and thumb exchanged, two
\* hands with the same index x, three small hands whose tips are all within
\* contact distance of each other, and a hand without fingertip landmarks
BuilderHands ==
  {Hand(ix, iy, ix + 180, 600) : ix \in {300, 336, 360}, iy \in {300, 320}}
    \cup {Hand(486, 600, 306, 300), Hand(300, 300, 300, 600), Hand(600, 300, 600, 600),
          Hand(300, 300, 340, 350), Hand(310, 300, 350, 350), Hand(310, 300, 352, 350),
          BlankHand}

InitBuilder ==
  /\ policy = 1
  /\ steadyObs = NoObs
  /\ scene = "gesture"
  /\ pointerCoarse = FALSE
  /\ InitPipeline
  /\ caseIn \in BuilderHands \X BuilderHands
  /\ caseStep = 0
  /\ caseOut = << >>

BuildBothOrders ==
  /\ caseStep = 0
  /\ caseStep' = 1
  /\ LET a == caseIn[1]
         b == caseIn[2]
     IN  caseOut' = [v1 |-> <<computeDirectorFrameV1(a, b), computeDirectorFrameV1(b, a)>>,
                     v2 |-> <<computeDirectorFrameV2(a, b), computeDirectorFrameV2(b, a)>>,
                     v3 |-> <<MeasureV3(<<a, b>>), MeasureV3(<<b, a>>)>>]
  /\ UNCHANGED <<caseIn, pipevars>>

SpecBuilder == InitBuilder /\ [][BuildBothOrders]_vars

\* the valid flags agree and, when valid, so do the four corners
SameFrame(r, q) ==
  /\ r.valid = q.valid
  /\ r.valid => r.corners = q.corners

\* the V3 measurements agree on whether the hands are usable and touching,
\* and on which hand is the left one when the index tips differ in x
SameContact(m, n) ==
  /\ m.ok = n.ok
  /\ m.ok =>
       /\ touchingNow(m, contactThresh(m.spanL, m.spanR, 0, FALSE), FALSE)
            = touchingNow(n, contactThresh(n.spanL, n.spanR, 0, FALSE), FALSE)
       /\ (caseIn[1].i.x # caseIn[2].i.x => m.tips = n.tips)

\* C15: the frame builders of V1 and V2 and the left/right ordering of V3
\* give the same result for (a, b) and (b, a).
C15_OrderIndependent ==
  caseStep = 1 =>
    /\ SameFrame(caseOut.v1[1], caseOut.v1[2])
    /\ SameFrame(caseOut.v2[1], caseOut.v2[2])
    /\ SameContact(caseOut.v3[1], caseOut.v3[2])

\* a pair given right hand first that yields a valid frame under V1 and V2
C15_Witness ==
  /\ caseStep = 1
  /\ caseIn[1].tips /\ caseIn[2].tips
  /\ caseIn[1].i.x > caseIn[2].i.x
  /\ caseOut.v1[1].valid
  /\ caseOut.v2[1].valid

\* the state the status line shows
DisplayState(st) ==
  IF st \in {"Hands up!", "Hands up like you're holding a camera"} THEN "No Hands"
  ELSE IF st = "Other hand up as well" THEN "One Hand"
  ELSE IF st \in {"Contact your fingertips to Frame and Capture",
                  "Align index fingertips (top) and thumbs (bottom)",
                  "Widen your frame", "Ready...", "Touch tips to capture"} THEN "Forming"
  ELSE "Ready"

\* C16: a tick with no hands, one hand, a hand lacking fingertip landmarks or
\* two hands with coincident fingertips runs to its end under every policy,
\* initiates no capture, and leaves valid = false and the state No Hands, One
\* Hand or Forming.
C16_DegenerateTick ==
  [][(pc = "detect" /\ pc' # "detect" /\ lastHands' \in DegenerateInputs)
       => /\ pc' = "raf"
          /\ ~Initiates
          /\ gestureValid' = FALSE
          /\ DisplayState(status') = (IF Len(lastHands') = 0 THEN "No Hands"
                                      ELSE IF Len(lastHands') = 1 THEN "One Hand"
                                      ELSE "Forming")]_vars

\* a tick with coincident fingertips has ended, after an earlier gesture was captured
C16_Witness ==
  /\ scene = "degenerate"
  /\ lastHands = PoseCoincident
  /\ pc = "raf"
  /\ lastDoneAt # Null
  /\ ~capturingRef

\* the builder of the mounted view produced no valid corners for these hands
NoValidCorners(hands) ==
  IF policy = 1 THEN ~FrameOfV1[hands].valid ELSE ~FrameOfV2[hands].valid

\* C17: under V1 and V2, after a tick on which the builder produced no valid
\* corners the corner history is empty.
C17_HistoryCleared ==
  [][(policy \in {1, 2} /\ pc = "detect" /\ pc' # "detect" /\ NoValidCorners(lastHands'))
       => cornersHistoryRef' = << >>]_vars

----------------------------------------------------------------------------
(* The crop projectors: the source rectangle each capture function passes  *)
(* to drawImage, for corners in units of 1/Unit and a video of W x H px.   *)

Unit == 1000

\* Math.floor(v * size) and Math.ceil(v * size) for v in units of 1/Unit
FloorScaled(v, size) == (v * size) \div Unit

CeilScaled(v, size) == -((-(v * size)) \div Unit)

FullFrame(W, H) == [sx |-> 0, sy |-> 0, sw |-> W, sh |-> H]

captureInternal_CeilOrigin(corners, sourceW, sourceH) ==
  LET leftX == Min2(corners.topLeft.x, corners.bottomLeft.x)
      rightX == Max2(corners.topRight.x, corners.bottomRight.x)
      topY == Min2(corners.topLeft.y, corners.topRight.y)
      bottomY == Max2(corners.bottomLeft.y, corners.bottomRight.y)
      sx == Max2(0, CeilScaled(leftX, sourceW))
      sy == Max2(0, CeilScaled(topY, sourceH))
      sw == Min2(sourceW - sx, FloorScaled(rightX - leftX, sourceW))
      sh == Min2(sourceH - sy, FloorScaled(bottomY - topY, sourceH))
  IN  IF sw <= 0 \/ sh <= 0 THEN FullFrame(sourceW, sourceH)
      ELSE [sx |-> sx, sy |-> sy, sw |-> sw, sh |-> sh]

\* CameraView.captureInternal with corners given: sx, sy, sw, sh
captureInternal(corners, sourceW, sourceH) ==
  LET leftX == Min2(corners.topLeft.x, corners.bottomLeft.x)
      rightX == Max2(corners.topRight.x, corners.bottomRight.x)
      topY == Min2(corners.topLeft.y, corners.topRight.y)
      bottomY == Max2(corners.bottomLeft.y, corners.bottomRight.y)
      sx == Max2(0, FloorScaled(leftX, sourceW))
      sy == Max2(0, FloorScaled(topY, sourceH))
      sw == Min2(sourceW - sx, FloorScaled(rightX - leftX, sourceW))
      sh == Min2(sourceH - sy, FloorScaled(bottomY - topY, sourceH))
  IN  IF sw <= 0 \/ sh <= 0 THEN FullFrame(sourceW, sourceH)
      ELSE [sx |-> sx, sy |-> sy, sw |-> sw, sh |-> sh]

\* Math.min(...xs), Math.max(...xs) over the points of a polygon
MinOf(vs) == CHOOSE v \in vs : \A u \in vs : v <= u

MaxOf(vs) == CHOOSE v \in vs : \A u \in vs : v >= u

\* CameraViewV3.captureArbitraryPolygon: left, top, sw, sh
captureArbitraryPolygon(normPoints, sourceW, sourceH) ==
  LET xs == {normPoints[k].x : k \in 1..Len(normPoints)}
      ys == {normPoints[k].y : k \in 1..Len(normPoints)}
      left == Max2(0, FloorScaled(MinOf(xs), sourceW))
      right == Min2(sourceW, CeilScaled(MaxOf(xs), sourceW))
      top == Max2(0, FloorScaled(MinOf(ys), sourceH))
      bottom == Min2(sourceH, CeilScaled(MaxOf(ys), sourceH))
  IN  [sx |-> left, sy |-> top, sw |-> Max2(1, right - left), sh |-> Max2(1, bottom - top)]

\* CameraViewV2.capturePolygon: the same bounding box over the four corners
capturePolygon(corners, sourceW, sourceH) ==
  captureArbitraryPolygon(<<corners.topLeft, corners.topRight, corners.bottomRight,
                            corners.bottomLeft>>, sourceW, sourceH)

\* corner coordinates of the boxes projected, in and outside the frame, and video sizes
CropCoords == {-100, 0, 200, 250, 333, 800, 1000, 1200}

CropRows == {200, 333, 800}

VideoSizes == {[w |-> 1000, h |-> 500], [w |-> 10, h |-> 10]}

BoxCorners(box) ==
  [topLeft |-> Pt(box.minX, box.minY), topRight |-> Pt(box.maxX, box.minY),
   bottomRight |-> Pt(box.maxX, box.maxY), bottomLeft |-> Pt(box.minX, box.maxY)]

InitCrop ==
  /\ policy = 1
  /\ steadyObs = NoObs
  /\ scene = "gesture"
  /\ pointerCoarse = FALSE
  /\ InitPipeline
  /\ caseIn \in {c \in [minX : CropCoords, maxX : CropCoords, minY : CropRows,
                          maxY : CropRows, size : VideoSizes] :
                     c.minX <= c.maxX /\ c.minY <= c.maxY}
  /\ caseStep = 0
  /\ caseOut = << >>

ProjectCrop ==
  /\ caseStep = 0
  /\ caseStep' = 1
  /\ LET c == BoxCorners(caseIn)
         W == caseIn.size.w
         H == caseIn.size.h
     IN  caseOut' = [box |-> captureInternal(c, W, H),
                     polygon |-> capturePolygon(c, W, H),
                     arbitrary |-> captureArbitraryPolygon(
                                     <<c.topLeft, c.topRight, c.bottomRight, c.bottomLeft>>, W, H)]
  /\ UNCHANGED <<caseIn, pipevars>>

SpecCrop == InitCrop /\ [][ProjectCrop]_vars

\* the width and height of the projected region after clamping to the
\* frame, in bounding-box mode and in polygon mode
ClampedBox ==
  LET W == caseIn.size.w
      H == caseIn.size.h
  IN  [w |-> Min2(W - Max2(0, FloorScaled(caseIn.minX, W)), FloorScaled(caseIn.maxX - caseIn.minX, W)),
       h |-> Min2(H - Max2(0, FloorScaled(caseIn.minY, H)), FloorScaled(caseIn.maxY - caseIn.minY, H))]

ClampedPolygon ==
  LET W == caseIn.size.w
      H == caseIn.size.h
  IN  [w |-> Min2(W, CeilScaled(caseIn.maxX, W)) - Max2(0, FloorScaled(caseIn.minX, W)),
       h |-> Min2(H, CeilScaled(caseIn.maxY, H)) - Max2(0, FloorScaled(caseIn.minY, H))]

\* C18: whenever the projected region has zero or negative width or height
\* after clamping, the region extracted is the full frame, in bounding-box
\* mode and in polygon mode.
C18_DegenerateIsFullFrame ==
  caseStep = 1 =>
    /\ (ClampedBox.w <= 0 \/ ClampedBox.h <= 0)
         => caseOut.box = FullFrame(caseIn.size.w, caseIn.size.h)
    /\ (ClampedPolygon.w <= 0 \/ ClampedPolygon.h <= 0)
         => /\ caseOut.polygon = FullFrame(caseIn.size.w, caseIn.size.h)
            /\ caseOut.arbitrary = FullFrame(caseIn.size.w, caseIn.size.h)

\* the box lies inside the frame and has positive width and height
BoxInside ==
  /\ caseStep = 1
  /\ 0 <= caseIn.minX /\ caseIn.minX < caseIn.maxX /\ caseIn.maxX <= Unit
  /\ 0 <= caseIn.minY /\ caseIn.minY < caseIn.maxY /\ caseIn.maxY <= Unit

\* region r starts at the floor of the scaled minimum corner
StartsAtFloor(r) ==
  /\ r.sx = FloorScaled(caseIn.minX, caseIn.size.w)
  /\ r.sy = FloorScaled(caseIn.minY, caseIn.size.h)

\* region r ends at the scaled maximum corner, rounded down or up
EndsAtScaledMax(r) ==
  /\ FloorScaled(caseIn.maxX, caseIn.size.w) <= r.sx + r.sw
  /\ r.sx + r.sw <= CeilScaled(caseIn.maxX, caseIn.size.w)
  /\ FloorScaled(caseIn.maxY, caseIn.size.h) <= r.sy + r.sh
  /\ r.sy + r.sh <= CeilScaled(caseIn.maxY, caseIn.size.h)

\* the example of the specification: [(0.2,0.2),(0.8,0.2),(0.8,0.8),(0.2,0.8)] at 1000x500
IsExampleBox ==
  /\ caseStep = 1
  /\ caseIn = [minX |-> 200, maxX |-> 800, minY |-> 200, maxY |-> 800,
               size |-> [w |-> 1000, h |-> 500]]

ExampleRegion == [sx |-> 200, sy |-> 100, sw |-> 600, sh |-> 300]

\* C19 as stated: for a box inside [0,1] every mode returns the rectangle
\* from the floor of the scaled minimum corner to the scaled maximum corner.
C19_ScaledCorners ==
  BoxInside =>
    /\ StartsAtFloor(caseOut.box) /\ EndsAtScaledMax(caseOut.box)
    /\ StartsAtFloor(caseOut.polygon) /\ EndsAtScaledMax(caseOut.polygon)
    /\ StartsAtFloor(caseOut.arbitrary) /\ EndsAtScaledMax(caseOut.arbitrary)

\* region r ends less than two pixels short of the scaled maximum corner
\* and not beyond its ceiling
EndsNearScaledMax(r) ==
  /\ Unit * (r.sx + r.sw) > caseIn.maxX * caseIn.size.w - 2 * Unit
  /\ r.sx + r.sw <= CeilScaled(caseIn.maxX, caseIn.size.w)
  /\ Unit * (r.sy + r.sh) > caseIn.maxY * caseIn.size.h - 2 * Unit
  /\ r.sy + r.sh <= CeilScaled(caseIn.maxY, caseIn.size.h)

\* C19 amended: for a box inside [0,1] polygon mode returns the rectangle
\* from the floor of the scaled minimum corner to the ceiling of the scaled
\* maximum corner; bounding-box mode returns that start with the floor of
\* the scaled width and height as its size when these are at least one
\* pixel, which ends less than two pixels short of the scaled maximum
\* corner; the example box yields x in [200,800], y in [100,400] in every
\* mode.
C19_ProjectedBox ==
  /\ BoxInside =>
       /\ StartsAtFloor(caseOut.polygon) /\ EndsAtScaledMax(caseOut.polygon)
       /\ caseOut.polygon.sx + caseOut.polygon.sw = CeilScaled(caseIn.maxX, caseIn.size.w)
       /\ caseOut.polygon.sy + caseOut.polygon.sh = CeilScaled(caseIn.maxY, caseIn.size.h)
       /\ caseOut.arbitrary = caseOut.polygon
       /\ (ClampedBox.w >= 1 /\ ClampedBox.h >= 1) =>
            /\ StartsAtFloor(caseOut.box)
            /\ caseOut.box.sw = FloorScaled(caseIn.maxX - caseIn.minX, caseIn.size.w)
            /\ caseOut.box.sh = FloorScaled(caseIn.maxY - caseIn.minY, caseIn.size.h)
            /\ EndsNearScaledMax(caseOut.box)
  /\ IsExampleBox =>
       /\ caseOut.box = ExampleRegion
       /\ caseOut.polygon = ExampleRegion
       /\ caseOut.arbitrary = ExampleRegion

\* the example box has been projected
C19_Witness == IsExampleBox /\ caseOut.box = ExampleRegion

----------------------------------------------------------------------------
(* Claims about the tick of each view *)

\* the first two hands the detector delivered both expose index and thumb tip
TwoHandsWithTips(hands) == Len(hands) >= 2 /\ hands[1].tips /\ hands[2].tips

\* V3: both hands span more than the minimum and some fingertip pairing is
\* closer than the contact threshold of the tick
QualifyingContact(hands, ema, coarse) ==
  LET m == MeasureOfV3[hands]
      T == contactThresh(m.spanL, m.spanR, ema, coarse)
      below(d) == d * Fine < T
  IN  /\ m.spanL > MIN_SPAN_V3 /\ m.spanR > MIN_SPAN_V3
      /\ \/ below(m.dIndex_same) /\ below(m.dThumb_same)
         \/ below(m.dIndex_cross) /\ below(m.dThumb_cross)
         \/ coarse /\ (below(m.dIndex_same) \/ below(m.dThumb_same))

\* the candidate geometry of the hands is valid for the mounted view
GeometryValid(hands, ema, coarse) ==
  IF policy = 1 THEN FrameOfV1[hands].valid
  ELSE IF policy = 2 THEN FrameOfV2[hands].valid
  ELSE QualifyingContact(hands, ema, coarse)

\* C21: under every policy a capture is initiated only on a tick on which two
\* hands with index and thumb tips were detected and the geometry of that
\* tick is valid; never on a tick with no hands, one hand or invalid geometry.
C21_CaptureNeedsValidTick ==
  [][Initiates
       => /\ TwoHandsWithTips(lastHands')
          /\ GeometryValid(lastHands', jitterEmaRef', coarseInputRef)]_vars

\* a later capture in flight where ticks without a usable pair of hands
\* occur, begun on a tick with two hands exposing their fingertips
C21_Witness ==
  /\ inFlight = 1
  /\ scene = "degenerate"
  /\ lastDoneAt # Null
  /\ TwoHandsWithTips(lastHands)

\* the corner sets the builder of the mounted view returns with valid = true
ValidCornerSets ==
  IF policy = 1 THEN {FrameOfV1[h].corners : h \in {g \in InputsV1 : FrameOfV1[g].valid}}
  ELSE {FrameOfV2[h].corners : h \in {g \in InputsV2 : FrameOfV2[g].valid}}

\* C22: under V1 and V2 every corner set held in the corner history was
\* produced by a candidate with valid = true.
C22_HistoryHoldsValidOnly ==
  policy \in {1, 2} =>
    \A k \in 1..Len(cornersHistoryRef) : cornersHistoryRef[k] \in ValidCornerSets

----------------------------------------------------------------------------
(* The corner history and smoother fed a sequence of corner sets, as the   *)
(* ticks of CameraView and CameraViewV2 do with the corners of the builder *)

HistoryCap == IF policy = 1 THEN HISTORY_CAP_V1 ELSE HISTORY_CAP_V2

\* corner sets the builders return for the modelled poses
PushedCorners ==
  {FrameOfV1[PoseF0].corners, FrameOfV1[PoseF1].corners, FrameOfV2[PoseV2(60, 0)].corners}

\* hist.slice(0, k): the first k entries, all of them when there are fewer
slice(hist, k) == SubSeq(hist, 1, Min2(k, Len(hist)))

averagedLists_AllButNewest(hist, cap) == <<hist, slice(hist, Len(hist) - 1)>>

\* the lists a tick hands to averageCorners after the push: the history, and
\* under `if (hist.length >= cap)` the older sub-window hist.slice(0, cap - 1)
averagedLists(hist, cap) ==
  <<hist>> \o (IF Len(hist) >= cap THEN <<slice(hist, cap - 1)>> ELSE << >>)

InitHistory ==
  /\ policy \in {1, 2}
  /\ steadyObs = NoObs
  /\ scene = "gesture"
  /\ pointerCoarse = FALSE
  /\ InitPipeline
  /\ caseIn = << >>
  /\ caseStep = 0
  /\ caseOut = [hist |-> << >>, smoothed |-> NoCorners, averaged |-> << >>]

\* hist.push(res.corners); shift; smoothed = averageCorners(hist)
PushCorners ==
  /\ caseStep < MaxPushes
  /\ \E c \in PushedCorners :
       LET hist == PushHistory(caseOut.hist, c, HistoryCap)
       IN  /\ caseIn' = Append(caseIn, c)
           /\ caseOut' = [hist |-> hist, smoothed |-> averageCorners(hist),
                           averaged |-> averagedLists(hist, HistoryCap)]
  /\ caseStep' = caseStep + 1
  /\ UNCHANGED pipevars

SpecHistory == InitHistory /\ [][PushCorners]_vars

\* the latest n of the corner sets appended so far, in arrival order
LatestOf(pushed, n) ==
  SubSeq(pushed, Len(pushed) - Min2(n, Len(pushed)) + 1, Len(pushed))

\* v is the arithmetic mean of coordinate axis of corner c over the entries
\* of hist, to the precision of the coordinate unit
IsMeanOf(v, hist, c, axis) ==
  LET n == Len(hist)
      total == SumOver(hist, c, axis)
  IN  n * v <= total /\ total < n * (v + 1)

CornerNames == {"topLeft", "topRight", "bottomRight", "bottomLeft"}

\* C23: the corner history holds at most 3 entries under V1 and 2 under V2,
\* always the most recently appended corner sets in arrival order, and the
\* smoothed corner set is the corner-wise arithmetic mean of the retained
\* entries, the entry itself when all retained entries are identical.
C23_FifoAndMean ==
  caseStep >= 1 =>
    /\ Len(caseOut.hist) <= (IF policy = 1 THEN 3 ELSE 2)
    /\ caseOut.hist = LatestOf(caseIn, IF policy = 1 THEN 3 ELSE 2)
    /\ \A c \in CornerNames :
         /\ IsMeanOf(caseOut.smoothed[c].x, caseOut.hist, c, "x")
         /\ IsMeanOf(caseOut.smoothed[c].y, caseOut.hist, c, "y")
    /\ (\A k \in 1..Len(caseOut.hist) : caseOut.hist[k] = caseOut.hist[1])
         => caseOut.smoothed = caseOut.hist[1]

\* the oldest entries were evicted from a V1 history of differing corner sets
C23_Witness ==
  /\ policy = 1
  /\ Len(caseIn) = 5
  /\ Len(caseOut.hist) = 3
  /\ caseIn[1] # caseIn[4]
  /\ caseOut.hist[1] # caseOut.hist[3]

----------------------------------------------------------------------------
(* Claims about the frame builders, over every pair of BuilderHands *)

\* both hands under test expose index and thumb tip
BothTips == caseStep = 1 /\ caseIn[1].tips /\ caseIn[2].tips

\* the hand under test with the smaller index x, the first one on a tie
LeftHand == IF caseIn[1].i.x <= caseIn[2].i.x THEN caseIn[1] ELSE caseIn[2]

RightHand == IF caseIn[1].i.x <= caseIn[2].i.x THEN caseIn[2] ELSE caseIn[1]

Near(p, q) == distance(p, q) < CONTACT_THRESH_V1

SamePairing == Near(LeftHand.i, RightHand.i) /\ Near(LeftHand.t, RightHand.t)

CrossPairing == Near(LeftHand.i, RightHand.t) /\ Near(LeftHand.t, RightHand.i)

\* the midpoints of the two contacts: of the same-type pairs when they
\* qualify, of the criss-cross pairs otherwise
ContactMidpoints ==
  IF SamePairing THEN <<Mid(LeftHand.i, RightHand.i), Mid(LeftHand.t, RightHand.t)>>
  ELSE <<Mid(LeftHand.i, RightHand.t), Mid(LeftHand.t, RightHand.i)>>

\* the axis-aligned box spanned by the two contact midpoints
ContactBox ==
  LET p == ContactMidpoints[1]
      q == ContactMidpoints[2]
  IN  [left |-> Min2(p.x, q.x), right |-> Max2(p.x, q.x),
       top |-> Min2(p.y, q.y), bottom |-> Max2(p.y, q.y)]

\* C24: the V1 builder's result is valid iff the same-type or the criss-cross
\* fingertip pairs are both closer than 0.08 and the box spanned by the two
\* contact midpoints is wider and higher than 0.04; when valid the corners
\* are that box, built on the same-type pairing when both pairings qualify;
\* when invalid no corners are returned.
C24_BuilderV1 ==
  BothTips =>
    LET res == caseOut.v1[1]
        box == ContactBox
    IN  /\ res.valid <=> /\ (SamePairing \/ CrossPairing)
                          /\ box.right - box.left > 40
                          /\ box.bottom - box.top > 40
        /\ res.valid =>
              /\ res.hasCorners
              /\ res.corners.topLeft = Pt(box.left, box.top)
              /\ res.corners.topRight = Pt(box.right, box.top)
              /\ res.corners.bottomRight = Pt(box.right, box.bottom)
              /\ res.corners.bottomLeft = Pt(box.left, box.bottom)
              /\ box.left < box.right /\ box.top < box.bottom
        /\ ~res.valid => ~res.hasCorners

\* both pairings qualify and the builder returns the box of the same-type one
C24_Witness ==
  /\ BothTips
  /\ SamePairing /\ CrossPairing
  /\ caseOut.v1[1].valid

\* C25: the V2 builder's corners are the four tracked points in the order
\* left index, right index, right thumb, left thumb, and the result is valid
\* iff the index tips are more than 0.025 apart in x and the lower thumb tip
\* is more than 0.025 below the upper index tip.
C25_BuilderV2 ==
  BothTips =>
    LET res == caseOut.v2[1]
    IN  /\ res.hasCorners
        /\ res.corners = [topLeft |-> LeftHand.i, topRight |-> RightHand.i,
                          bottomRight |-> RightHand.t, bottomLeft |-> LeftHand.t]
        /\ res.valid <=>
              /\ Abs(RightHand.i.x - LeftHand.i.x) > 25
              /\ Max2(LeftHand.t.y, RightHand.t.y) - Min2(LeftHand.i.y, RightHand.i.y) > 25

\* a pair given right hand first: the second hand supplies the left corners
C25_Witness ==
  /\ BothTips
  /\ caseIn[1].i.x > caseIn[2].i.x
  /\ caseOut.v2[1].valid
  /\ caseOut.v2[1].corners.topLeft = caseIn[2].i
  /\ caseOut.v2[1].corners.bottomRight = caseIn[1].t

----------------------------------------------------------------------------
(* The contact test of CameraViewV3 applied to a pair of hands, for either *)
(* value of the device-class hint and of the jitter average of the tick.   *)

\* a left hand and, to its right: hands touching it with both same-type
\* pairs, with the index pair only, with both cross pairs, with one cross
\* pair only, a hand out of reach and a hand with too small a span
ContactHands ==
  {Hand(300, 300, 300, 500), Hand(324, 300, 324, 500), Hand(320, 300, 320, 600),
   Hand(320, 500, 320, 300), Hand(320, 700, 320, 300), Hand(364, 300, 364, 500),
   Hand(310, 300, 310, 340)}

\* jitterEmaRef before the tick, in 1/10000
ContactJitters == {0, 40, 300}

\* frameJitter of the tick, in 1/1000
FrameJitters == {0, 4, 60}

InitContact ==
  /\ policy = 3
  /\ steadyObs = NoObs
  /\ scene = "gesture"
  /\ pointerCoarse = FALSE
  /\ InitPipeline
  /\ caseIn \in [a : ContactHands, b : ContactHands, coarse : BOOLEAN, ema : ContactJitters,
                  jitter : FrameJitters]
  /\ caseStep = 0
  /\ caseOut = << >>

TestContact ==
  /\ caseStep = 0
  /\ caseStep' = 1
  /\ LET m == MeasureV3(<<caseIn.a, caseIn.b>>)
         ema == jitterEma(caseIn.ema, caseIn.jitter)
         thresh == contactThresh(m.spanL, m.spanR, ema, caseIn.coarse)
     IN  caseOut' = [m |-> m, ema |-> ema, thresh |-> thresh,
                     release |-> releaseThreshX10(thresh),
                     touching |-> touchingNow(m, thresh, caseIn.coarse)]
  /\ UNCHANGED <<caseIn, pipevars>>

SpecContact == InitContact /\ [][TestContact]_vars

\* distance d of the tested pair is below the contact threshold of the test
Below(d) == d * Fine < caseOut.thresh

SpansAboveMinimum == caseOut.m.spanL > 50 /\ caseOut.m.spanR > 50

BothSameTypeBelow == Below(caseOut.m.dIndex_same) /\ Below(caseOut.m.dThumb_same)

BothCrossBelow == Below(caseOut.m.dIndex_cross) /\ Below(caseOut.m.dThumb_cross)

HintNeverCoarse == ~coarseInputRef

\* C27: on a touch device the adaptations of V3 take effect: once a tick has
\* run the device-class hint is pointer-coarse, and a tick whose fingertips
\* touch under the threshold inflated by CONTACT_MOBILE_BOOST, or with a
\* single same-type pair, leaves the contact timer running.
C27_TouchAdaptationsReached ==
  [][(policy = 3 /\ pointerCoarse /\ pc = "detect" /\ pc' # "detect")
       => /\ coarseInputRef'
          /\ TouchingOnTick(lastHands', jitterEmaRef', TRUE) => contactSinceRef' # Null]_vars

\* the number of delivered hands that expose both index and thumb tip
QualifyingHands(hands) == Len(SelectSeq(hands, LAMBDA h : h.tips))

\* C28: under V3 the contact timer is cleared on every tick on which fewer
\* than two hands exposing index and thumb tip are available, also when two
\* hands are detected and one lacks a landmark.
C28_TimerClearedWithoutTwoHands ==
  [][(policy = 3 /\ pc = "detect" /\ pc' # "detect" /\ QualifyingHands(lastHands') < 2)
       => contactSinceRef' = Null]_vars

\* region r lies inside the W x H frame and is not empty
InsideFrame(r, W, H) ==
  /\ 0 <= r.sx /\ 0 <= r.sy
  /\ r.sx + r.sw <= W /\ r.sy + r.sh <= H
  /\ r.sw >= 1 /\ r.sh >= 1

\* C29: for every corner set, also with coordinates outside [0,1], the
\* source rectangle passed to extraction lies inside the frame and is not
\* empty, in bounding-box mode and in polygon mode.
C29_RegionInsideFrame ==
  caseStep = 1 =>
    /\ InsideFrame(caseOut.box, caseIn.size.w, caseIn.size.h)
    /\ InsideFrame(caseOut.polygon, caseIn.size.w, caseIn.size.h)
    /\ InsideFrame(caseOut.arbitrary, caseIn.size.w, caseIn.size.h)

\* the bounding-box mode alone keeps its rectangle inside the frame
BoxModeInsideFrame ==
  caseStep = 1 => InsideFrame(caseOut.box, caseIn.size.w, caseIn.size.h)

\* the corner history is full and all its entries are the same corner set
FullOfIdentical ==
  /\ Len(cornersHistoryRef) = HistoryCap
  /\ \A k \in 1..Len(cornersHistoryRef) : cornersHistoryRef[k] = cornersHistoryRef[1]

\* C30: under V1 and V2 the gesture is never classified stable while the
\* history holds fewer than 3 (V2: 2) entries, a full history of identical
\* corner sets is classified stable, and no V1 capture is initiated before
\* three valid corner sets have been appended.
C30_StableNeedsFullHistory ==
  policy \in {1, 2} =>
    /\ gestureStable => Len(cornersHistoryRef) >= (IF policy = 1 THEN 3 ELSE 2)
    /\ FullOfIdentical => gestureStable
    /\ (policy = 1 /\ lastInitAt # Null) =>
          /\ Len(cornersHistoryRef) = 3
          /\ \A k \in 1..3 : cornersHistoryRef[k] \in ValidCornerSets

\* a V1 capture in flight on a full history of identical corner sets
C30_Witness ==
  /\ policy = 1
  /\ inFlight = 1
  /\ FullOfIdentical
  /\ gestureStable

----------------------------------------------------------------------------
(* Claims about the adaptive thresholds of CameraViewV3 *)

\* hand-span sums and jitter averages to compare the tested ones with
SpanSums == {0, 100, 240, 400, 600, 2000}

OtherJitters == {0, 14, 40, 100, 300}

\* under V3 the jitter average is never negative in the running pipeline
JitterNeverNegative == jitterEmaRef >= 0

\* C31: under V3 the contact threshold lies in [CONTACT_MIN, CONTACT_MAX] =
\* [0.005, 0.05], the release threshold is 1.4 times the contact threshold,
\* a tick leaves a non-negative jitter average non-negative, and for a fixed
\* device class the contact threshold does not decrease when the average
\* hand span or the jitter average grows.
C31_ThresholdBounds ==
  caseStep = 1 =>
    /\ 5 * Fine <= caseOut.thresh /\ caseOut.thresh <= 50 * Fine
    /\ caseOut.release = 14 * caseOut.thresh
    /\ caseOut.ema >= 0
    /\ \A s \in SpanSums, e \in OtherJitters :
         LET sum == caseOut.m.spanL + caseOut.m.spanR
             other == contactThresh(s, 0, e, caseIn.coarse)
         IN  /\ (s >= sum /\ e >= caseOut.ema) => other >= caseOut.thresh
             /\ (s <= sum /\ e <= caseOut.ema) => other <= caseOut.thresh

\* a threshold strictly inside the range, raised by the jitter of the tick
C31_Witness ==
  /\ caseStep = 1
  /\ caseOut.ema > 0
  /\ 5 * Fine < caseOut.thresh /\ caseOut.thresh < 50 * Fine
  /\ caseOut.thresh > contactThresh(caseOut.m.spanL, caseOut.m.spanR, 0, caseIn.coarse)

----------------------------------------------------------------------------
(* Claims about the arguments of averageCorners *)

\* in the running pipeline a tick whose builder returned corners leaves a
\* non-empty history behind
HistoryNonEmptyAfterCorners ==
  /\ (policy = 1 /\ lastHands \in InputsV1 /\ FrameOfV1[lastHands].hasCorners)
       => Len(cornersHistoryRef) >= 1
  /\ (policy = 2 /\ lastHands \in InputsV2 /\ FrameOfV2[lastHands].hasCorners)
       => Len(cornersHistoryRef) >= 1

\* C37: averageCorners is never invoked on an empty list on a tick of V1 or
\* V2: the history it averages is non-empty, and the older sub-window is
\* averaged only when the history holds at least 3 entries (V1) or 2 (V2),
\* when it has 2 entries (V1) or 1 (V2).
C37_AveragedListsNonEmpty ==
  caseStep >= 1 =>
    /\ Len(caseOut.averaged) \in {1, 2}
    /\ \A k \in 1..Len(caseOut.averaged) : Len(caseOut.averaged[k]) >= 1
    /\ Len(caseOut.averaged) = 2 =>
         /\ Len(caseOut.hist) >= (IF policy = 1 THEN 3 ELSE 2)
         /\ Len(caseOut.averaged[2]) = (IF policy = 1 THEN 2 ELSE 1)

\* a first V1 tick averages a history of one entry and no sub-window
C37_Witness ==
  /\ policy = 1
  /\ caseStep = 1
  /\ caseOut.averaged = <<caseOut.hist>>
  /\ Len(caseOut.hist) = 1

----------------------------------------------------------------------------
(* Version routing of App: a path is a sequence of characters *)

\* longest location path the browser opens the app with
MaxPathLen == 4

\* navigation events after the mount
MaxNav == 3

PathChars == {"/", "a", "0", "2", "3", "4"}

Digits == {"0", "1", "2", "3", "4", "5", "6", "7", "8", "9"}

DigitValue ==
  [d \in Digits |-> CASE d = "0" -> 0 [] d = "1" -> 1 [] d = "2" -> 2 [] d = "3" -> 3
                      [] d = "4" -> 4 [] d = "5" -> 5 [] d = "6" -> 6 [] d = "7" -> 7
                      [] d = "8" -> 8 [] d = "9" -> 9]

\* `${v}` of a version below ten
DigitOf(v) == CHOOSE d \in Digits : DigitValue[d] = v

\* window.location.pathname: absolute paths of up to MaxPathLen characters
Paths ==
  UNION {{<<"/">> \o t : t \in [1..n -> PathChars]} : n \in 0..(MaxPathLen - 1)}

\* Object.keys(VersionMap), parsed and sorted
SUPPORTED_VERSIONS == <<1, 2, 3>>

\* SUPPORTED_VERSIONS.includes(v) ? v : SUPPORTED_VERSIONS[0]
normalizeVersion(v) ==
  IF \E k \in 1..Len(SUPPORTED_VERSIONS) : SUPPORTED_VERSIONS[k] = v
  THEN v ELSE SUPPORTED_VERSIONS[1]

\* where /\/(\d+)\/?$/ matches in path: the index of the "/" that opens the
\* match, 0 when there is none. The digits must run up to the end of the
\* path or up to its trailing "/", so there is one candidate only.
MatchStart(path) ==
  LET n == Len(path)
      e == IF n >= 1 /\ path[n] = "/" THEN n - 1 ELSE n
      starts == {p \in 1..e : /\ path[p] = "/"
                               /\ p < e
                               /\ \A k \in (p + 1)..e : path[k] \in Digits}
  IN  IF starts = {} THEN 0 ELSE CHOOSE p \in starts : TRUE

\* the end of the capture group (\d+)
MatchDigitsEnd(path) ==
  IF path[Len(path)] = "/" THEN Len(path) - 1 ELSE Len(path)

RECURSIVE parseInt(_)
\* parseInt(m[1], 10) of a sequence of decimal digits
parseInt(digits) ==
  IF digits = << >> THEN 0
  ELSE 10 * parseInt(SubSeq(digits, 1, Len(digits) - 1)) + DigitValue[digits[Len(digits)]]

parseVersionFromPath(path) ==
  LET p == MatchStart(path)
  IN  IF p = 0 THEN 1
      ELSE LET n == parseInt(SubSeq(path, p + 1, MatchDigitsEnd(path)))
           IN  IF n >= 1 THEN n ELSE 1

stripVersionFromPath(path) ==
  LET p == MatchStart(path)
      stripped == IF p = 0 THEN path ELSE SubSeq(path, 1, p - 1)
  IN  IF Len(stripped) = 0 THEN <<"/">> ELSE stripped

\* v === 1 ? (cleanBase || '/') : `${cleanBase || ''}/${v}`
buildPath(base, v) ==
  LET cleanBase == IF Len(base) >= 1 /\ base[Len(base)] = "/"
                   THEN SubSeq(base, 1, Len(base) - 1) ELSE base
  IN  IF v = 1 THEN (IF cleanBase = << >> THEN <<"/">> ELSE cleanBase)
      ELSE cleanBase \o <<"/", DigitOf(v)>>

\* caseIn: the path the app is opened with; caseOut: the version state, the
\* base path, the location and the session-history entries written so far
NotMounted == [version |-> 1, base |-> << >>, location |-> << >>, entries |-> {}]

InitRouting ==
  /\ policy = 1
  /\ steadyObs = NoObs
  /\ scene = "gesture"
  /\ pointerCoarse = FALSE
  /\ InitPipeline
  /\ caseIn \in Paths
  /\ caseStep = 0
  /\ caseOut = NotMounted

\* the mount effect and the two runs of the version effect that follow it:
\* with the initial version state 1, then with the committed setVersion(nv)
Mount ==
  /\ caseStep = 0
  /\ LET path == caseIn
         nv == normalizeVersion(parseVersionFromPath(path))
         base == stripVersionFromPath(path)
         replaced == buildPath(base, nv)
         first == buildPath(base, normalizeVersion(1))
         second == buildPath(base, normalizeVersion(nv))
     IN  caseOut' = [version |-> nv, base |-> base, location |-> second,
                     entries |-> {replaced, first, second}]
  /\ caseStep' = 1
  /\ UNCHANGED <<caseIn, pipevars>>

\* the selector's onChange and the version effect: pushState when the path differs
SelectVersion ==
  /\ caseStep \in 1..MaxNav
  /\ \E v \in {1, 2, 3} :
       LET base == IF caseOut.base = << >> THEN <<"/">> ELSE caseOut.base
           desired == buildPath(base, normalizeVersion(v))
       IN  caseOut' = [caseOut EXCEPT !.version = v, !.location = desired,
                                      !.entries = @ \cup {desired}]
  /\ caseStep' = caseStep + 1
  /\ UNCHANGED <<caseIn, pipevars>>

\* back/forward to an entry of the session history: onPop, then the version
\* effect when the version state changed
PopState ==
  /\ caseStep \in 1..MaxNav
  /\ \E path \in caseOut.entries :
       LET v == normalizeVersion(parseVersionFromPath(path))
           base == stripVersionFromPath(path)
           desired == buildPath(base, normalizeVersion(v))
           location == IF v # caseOut.version THEN desired ELSE path
       IN  caseOut' = [version |-> v, base |-> base, location |-> location,
                       entries |-> caseOut.entries \cup {location}]
  /\ caseStep' = caseStep + 1
  /\ UNCHANGED <<caseIn, pipevars>>

NextRouting == Mount \/ SelectVersion \/ PopState

SpecRouting == InitRouting /\ [][NextRouting]_vars

\* the version state is always a supported version
VersionSupported == caseOut.version \in {1, 2, 3}

\* the path written for version v under the base path reads back as v and base
RoundTrips(base, v) ==
  /\ normalizeVersion(parseVersionFromPath(buildPath(base, v))) = v
  /\ stripVersionFromPath(buildPath(base, v)) = base

\* C36: the active version is always one of {1, 2, 3}, an unsupported or
\* missing number in the URL resolving to 1, and for the base path the app
\* derived with stripVersionFromPath and every supported version v the path
\* built for v parses back to v and strips back to the base path.
C36_UrlVersionRoundTrip ==
  caseStep >= 1 =>
    /\ VersionSupported
    /\ \A v \in {1, 2, 3} : RoundTrips(caseOut.base, v)

\* the version read back from a path the app wrote for version 1 is 1
WrittenForOneReadsOne ==
  caseStep >= 1 => normalizeVersion(parseVersionFromPath(buildPath(caseOut.base, 1))) = 1

----------------------------------------------------------------------------
(* The lifecycle of App, of its camera views and of their hand trackers:   *)
(* mounts and unmounts, the asynchronous start of the stream and of the    *)
(* tracker, ticks up to the awaited export, and the export's completion.   *)
(* What a tick detects is left open: it initiates a capture or it does not.*)

\* camera view instances mounted in a run
MaxViews == 3

\* blob URLs created in a run
MaxUrls == 2

\* HandTracker.isReady(): this.ready && !!this.detector
isReady(t) == t.ready /\ t.detector

\* HandTracker.close(): this.detector = null; this.ready = false
close(t) == [t EXCEPT !.detector = FALSE, !.ready = FALSE, !.closed = TRUE]

\* the end of HandTracker.initialize(): this.detector = ...; this.ready = true
initialized(t) == [t EXCEPT !.detector = TRUE, !.ready = TRUE]

\* the effect cleanup of a view, at its unmount (React has cleared videoRef):
\* the pending animation frame is cancelled, the stream is stopped, and
\* CameraViewV2 and CameraViewV3 close the tracker if trackerRef is set
cleanup(view) ==
  LET stopped == [view EXCEPT !.mounted = FALSE, !.videoRef = FALSE, !.raf = FALSE]
  IN  IF view.ver \in {2, 3} /\ view.trackerRef THEN close(stopped) ELSE stopped

\* the views after a render of App without the mounted camera view
unmounted(vs) == [i \in DOMAIN vs |-> IF vs[i].mounted THEN cleanup(vs[i]) ELSE vs[i]]

onCaptureCalls_Always(blob) == 1

\* the toBlob callback: if (!blob) return resolve(); ...; onCapture(url)
onCaptureCalls(blob) == IF blob THEN 1 ELSE 0

\* startStream after getUserMedia and video.play(): `videoRef.current!` of an
\* unmounted view is null and the assignment throws into the catch; else
\* trackerRef.current = new HandTracker() and initialize() is awaited
StreamReady ==
  \E i \in DOMAIN views :
    /\ views[i].phase = "starting"
    /\ views' = [views EXCEPT ![i] =
                   IF ~views[i].videoRef THEN [@ EXCEPT !.phase = "failed"]
                   ELSE [@ EXCEPT !.phase = "initializing", !.trackerRef = TRUE]]
    /\ UNCHANGED <<policy, loopvars, casevars, mode, imageUrl, urls, revoked>>

\* initialize() resolves: the detector is stored and ready set, then loop()
\* requests the first frame unless videoRef.current is null
InitializeDone ==
  \E i \in DOMAIN views :
    /\ views[i].phase = "initializing"
    /\ views' = [views EXCEPT ![i] =
                   IF views[i].videoRef
                   THEN [initialized(@) EXCEPT !.phase = "running", !.raf = TRUE]
                   ELSE [initialized(@) EXCEPT !.phase = "returned"]]
    /\ UNCHANGED <<policy, loopvars, casevars, mode, imageUrl, urls, revoked>>

\* a requested frame fires: tick() runs up to its finally block or up to the
\* awaited toBlob of a capture it initiates. The capture function returns at
\* once when videoRef.current is null, and may throw before the export.
Tick ==
  \E i \in DOMAIN views :
    /\ views[i].raf
    /\ \E does \in {"nothing", "captures", "throws"} :
         LET v == [views[i] EXCEPT !.lateTick = @ \/ ~views[i].mounted]
             initiates == isReady(v) /\ does # "nothing" /\ ~v.capturingRef
         IN  views' = [views EXCEPT ![i] =
               IF ~initiates THEN v
               ELSE IF ~v.videoRef
                 THEN [v EXCEPT !.calls = 0, !.outcome = "returned"]
               ELSE IF does = "throws"
                 THEN [v EXCEPT !.capturingRef = TRUE, !.calls = 0, !.outcome = "threw"]
               ELSE [v EXCEPT !.capturingRef = TRUE, !.calls = 0, !.outcome = "pending",
                              !.pc = "export", !.raf = FALSE]]
    /\ UNCHANGED <<policy, loopvars, casevars, mode, imageUrl, urls, revoked>>

\* toBlob calls back. With a blob: createObjectURL, onCapture(url), that is
\* App.handleCapture: setImageUrl(url); setMode('result'). The tick resumes:
\* capturingRef.current = false and the finally block requests a frame. The
\* render of `result` then unmounts the mounted camera view.
ToBlobDone ==
  \E i \in DOMAIN views, blob \in BOOLEAN :
    /\ views[i].pc = "export"
    /\ blob => urls < MaxUrls
    /\ LET resumed == [views EXCEPT ![i] =
                         [@ EXCEPT !.pc = "idle", !.capturingRef = FALSE, !.raf = TRUE,
                                   !.calls = onCaptureCalls(blob),
                                   !.outcome = IF blob THEN "blob" ELSE "null",
                                   !.lateCapture = @ \/ (onCaptureCalls(blob) > 0
                                                          /\ ~views[i].mounted)]]
       IN  IF onCaptureCalls(blob) > 0
           THEN /\ urls' = urls + 1
                /\ imageUrl' = urls + 1
                /\ mode' = "result"
                /\ views' = unmounted(resumed)
                /\ UNCHANGED revoked
           ELSE /\ views' = resumed
                /\ UNCHANGED <<mode, imageUrl, urls, revoked>>
    /\ UNCHANGED <<policy, loopvars, casevars>>

\* the version selector's onChange: setVersion(v). In camera mode the view
\* of the old version unmounts and the view of the new one mounts.
SwitchVersion ==
  \E v \in {1, 2, 3} \ {policy} :
    /\ policy' = v
    /\ IF mode = "camera"
       THEN /\ Len(views) < MaxViews
            /\ views' = Append(unmounted(views), NewView(v))
       ELSE UNCHANGED views
    /\ UNCHANGED <<loopvars, casevars, mode, imageUrl, urls, revoked>>

\* App.handleRetake: if (imageUrl) URL.revokeObjectURL(imageUrl);
\* setImageUrl(null); setMode('camera'), and the camera view mounts
handleRetake ==
  /\ mode = "result"
  /\ Len(views) < MaxViews
  /\ revoked' = IF imageUrl # NoUrl THEN revoked \cup {imageUrl} ELSE revoked
  /\ imageUrl' = NoUrl
  /\ mode' = "camera"
  /\ views' = Append(views, NewView(policy))
  /\ UNCHANGED <<policy, loopvars, casevars, urls>>

NextApp == StreamReady \/ InitializeDone \/ Tick \/ ToBlobDone \/ SwitchVersion \/ handleRetake

SpecApp == Init /\ [][NextApp]_vars

\* C32: once the cleanup of a camera view has run, no tick of that view
\* executes and that view delivers no capture to onCapture.
C32_NothingAfterCleanup ==
  \A i \in DOMAIN views : ~views[i].lateTick /\ ~views[i].lateCapture

\* a view that is not capturing and whose latest capture has ended
CaptureEnded(view) == ~view.capturingRef /\ view.outcome \notin {"none", "pending"}

\* C33 as stated: every capture initiation whose capturing flag has been
\* cleared has called onCapture exactly once.
C33_ExactlyOnce ==
  \A i \in DOMAIN views : CaptureEnded(views[i]) => views[i].calls = 1

\* C33: between setting capturingRef and clearing it onCapture is called at
\* most once: exactly once when the export yields a blob, and not at all
\* when it yields none or when the capture function returns before the export.
C33_AtMostOncePerInitiation ==
  \A i \in DOMAIN views :
    /\ views[i].calls <= 1
    /\ views[i].outcome = "pending" => views[i].calls = 0
    /\ CaptureEnded(views[i]) =>
         views[i].calls = (IF views[i].outcome = "blob" THEN 1 ELSE 0)

\* the export of a mounted view yielded a blob: one call, and the flag is cleared
C33_Witness ==
  \E i \in DOMAIN views :
    /\ CaptureEnded(views[i])
    /\ views[i].outcome = "blob"
    /\ views[i].calls = 1
    /\ ~views[i].lateCapture
    /\ imageUrl # NoUrl

\* C34: a closed tracker is not ready, and a tracker is ready only when its
\* initialize() has completed.
C34_TrackerLifecycle ==
  \A i \in DOMAIN views :
    /\ views[i].closed => ~isReady(views[i])
    /\ isReady(views[i]) => views[i].phase \in {"running", "returned"}

\* C35: mode is 'result' exactly when imageUrl is set, and in camera mode
\* every blob URL handed to handleCapture has been revoked.
C35_ModeAndRevocation ==
  /\ mode = "result" <=> imageUrl # NoUrl
  /\ mode = "camera" => \A u \in 1..urls : u \in revoked

\* the first half of C35 alone
ModeMatchesImage == mode = "result" <=> imageUrl # NoUrl

\* a tracker is ready only after its initialize() has completed
ReadyOnlyAfterInitialize ==
  \A i \in DOMAIN views : isReady(views[i]) => views[i].phase \in {"running", "returned"}

====
